---- MODULE Spec2Model ----
(***************************************************************************)
(* Verification model of the raysurfer TypeScript SDK.                     *)
(*                                                                         *)
(*   Transport        RaySurfer.request        src/src/client.ts 1100-1218 *)
(*   Stream session   RaysurferQuery           src/unnamed/part_004        *)
(*   Change detector  collectChangedFiles      src/unnamed/part_008        *)
(*                                                                         *)
(* Each subsystem has its own specification (SpecT, SpecQ, SpecD); the     *)
(* variables of the other subsystems stay at their initial values.         *)
(***************************************************************************)
EXTENDS Integers, Sequences, FiniteSets, TLC

VARIABLES
    \* ---- Transport: one RaySurfer.request call --------------------------
    tpc,            \* position of the call: idle | fetch | sleep | done
    attempt,        \* loop variable `attempt` of the retry loop
    timers,         \* attempts whose deadline timer (timeoutId) is armed
    tlog,           \* outcome of every attempt made so far, in order
    tdelays,        \* backoff waits inserted so far, in ms, in order
    lastError,      \* `lastError`: TRUE once a TypeError was remembered
    tresult,        \* what the call returned or threw
    tmessage,       \* message of the error the call threw
    \* ---- Stream session: one RaysurferQuery -----------------------------
    cacheEnabled,   \* _cacheEnabled (an API key is configured)
    hasPromptText,  \* _promptText is a non-empty string (not a message stream)
    parseRun,       \* _parseRunForAiVoting (the sampling decision)
    inner,          \* _inner: "null" or "query"
    initPromise,    \* _initPromise: null | pending | resolved | rejected
    initPc,         \* position of _initialize: idle | retrieving | importing | done | failed
    raysurfer,      \* _raysurfer is set
    cachedFiles,    \* _cachedFiles, in retrieval order
    addToLlmPrompt, \* filenames listed in the prompt addition
    sdkPrompt,      \* prompt addition the wrapped stream was opened with
    initWrites,     \* files _initialize wrote: <<path, content>> pairs
    modifiedFilePaths,   \* _modifiedFilePaths, in insertion order
    taskSucceeded,  \* _taskSucceeded
    cacheUploadDone,\* _cacheUploadDone
    messageCount,   \* _messageCount
    generatedCodeBlocks, \* _generatedCodeBlocks (trimmed lengths), in capture order
    bashGeneratedFiles,  \* _bashGeneratedFiles, in insertion order
    executionLogs,  \* _executionLogs: number of captured tool results
    filesToCache,   \* filesToCache of the running _uploadCache
    uploadIdx,      \* requests of the running _uploadCache answered so far
    finalizer,      \* call that runs the body of _uploadCache (0: none)
    calls,          \* the consumer's calls, in call order (Finished once over)
    innerQueue,     \* calls whose request waits for the wrapped stream
    innerPos,       \* messages the wrapped stream has yielded
    innerFinished,  \* the wrapped stream has ended
    innerLast,      \* the latest result the wrapped stream gave to a next()
    netLog,         \* upload and vote requests issued, in order
    stats,          \* observation counters and flags (see InitStats)
    \* ---- Change detector: collectChangedFiles / snapshotHashes ----------
    sep,            \* path.sep of the platform, as a code unit
    disk,           \* the files under tempdir: file -> bytes, or Absent
    baselineHashes, \* the baseline snapshot the caller holds
    dlast,          \* the latest collectChangedFiles call (see NoCall)
    dprev,          \* the call before it, no write in between
    dsnap,          \* the latest snapshotHashes result, no write since
    \* ---- Materialization session: ProgrammaticToolCallingSession -------
    prepared,       \* this.prepared
    ptcFiles,       \* this.files
    contextPrompt,  \* this.contextPrompt
    ptcLogs,        \* this.executionLogs: number of lines held
    mpc,            \* the caller's position: idle, or inside an awaited request
    mlocal,         \* locals of the pending uploadChangedCode / prepareTurn
    mlast,          \* the latest call that ended (see Op), nothing written since
    mfresh,         \* the baseline was read from tempdir as it is now
    mwork,          \* the agent's writes not yet sent in an upload (see NoWork)
    \* ---- Client upload: RaySurfer.upload ---------------------------------
    upc,            \* the caller's position: idle, requesting, done
    uopts,          \* opts of the upload() call
    uidx,           \* requests of the call that have resolved
    usent,          \* bodies of the requests sent, in order
    uresult         \* how the call ended

uvars == <<upc, uopts, uidx, usent, uresult>>
tvars == <<tpc, attempt, timers, tlog, tdelays, lastError, tresult, tmessage, uvars>>

cfgvars == <<cacheEnabled, hasPromptText, parseRun>>
initvars == <<inner, initPromise, initPc, raysurfer, cachedFiles, addToLlmPrompt,
              sdkPrompt, initWrites>>
trackvars == <<taskSucceeded, messageCount, generatedCodeBlocks, bashGeneratedFiles,
              executionLogs>>
finvars == <<cacheUploadDone, filesToCache, uploadIdx, finalizer, netLog>>
streamvars == <<innerQueue, innerPos, innerFinished, innerLast>>
qvars == <<cfgvars, initvars, trackvars, finvars, streamvars, modifiedFilePaths,
           calls, stats>>

mvars == <<prepared, ptcFiles, contextPrompt, ptcLogs, mpc, mlocal, mlast, mfresh, mwork>>

dvars == <<sep, disk, baselineHashes, dlast, dprev, dsnap, mvars>>

vars == <<tvars, qvars, dvars>>

----------------------------------------------------------------------------
(* Transport: RaySurfer.request, src/src/client.ts                         *)

MAX_RETRIES == 3
RETRY_BASE_DELAY == 500
\* Faulty variant of RETRYABLE_STATUS_CODES: 404 is retried too.
RETRYABLE_STATUS_CODES_AndNotFound == {404, 429, 500, 502, 503, 504}

RETRYABLE_STATUS_CODES == {429, 500, 502, 503, 504}

\* Largest Retry-After value (seconds) the modelled server sends.
MaxRetryAfter == 2

\* Response statuses the modelled server may answer with.
Statuses == {200, 401, 404} \cup RETRYABLE_STATUS_CODES

\* Response bodies, as response.text() returns them.
Bodies == {"body1", "body2"}

\* Message of an error constructed without a response body, and no message.
DefaultMessage == "default"
NoMessage == "none"

\* A Retry-After header: <<>> when absent, <<n>> for "n" seconds.
RetryAfterHeaders == {<<>>} \cup {<<n>> : n \in 0..MaxRetryAfter}

Pow2(n) == IF n = 0 THEN 1 ELSE IF n = 1 THEN 2 ELSE IF n = 2 THEN 4 ELSE 8

\* Faulty variant of ResponseOk: client errors count as success.
ResponseOk_ClientErrorsPass(status) == status >= 200 /\ status <= 499

\* response.ok
ResponseOk(status) == status >= 200 /\ status <= 299

\* RETRY_BASE_DELAY * 2 ** attempt
BackoffDelay(n) == RETRY_BASE_DELAY * Pow2(n)

\* Faulty variant of RetryAfterMs: the header's seconds are used as milliseconds.
RetryAfterMs_Seconds(hdr, n) == IF hdr # <<>> THEN hdr[1] ELSE BackoffDelay(n)

\* retryAfterHeader ? parseFloat(retryAfterHeader) * 1000 : RETRY_BASE_DELAY * 2 ** attempt
RetryAfterMs(hdr, n) == IF hdr # <<>> THEN hdr[1] * 1000 ELSE BackoffDelay(n)

\* Faulty variant of RateLimitHint: the hint is not passed on.
RateLimitHint_Dropped(hdr) == <<>>

\* retryAfterHeader ? parseFloat(retryAfterHeader) : undefined
RateLimitHint(hdr) == hdr

\* Faulty variant of NetworkRetryDelay: the wait does not grow.
NetworkRetryDelay_Flat(n) == RETRY_BASE_DELAY

\* The wait before the retry of a connection-level failure (catch block).
NetworkRetryDelay(n) == BackoffDelay(n)

\* Faulty variant of ClearTimer: the timer is left pending.
ClearTimer_Leaks(ts, n) == ts

\* clearTimeout(timeoutId) of attempt n
ClearTimer(ts, n) == ts \ {n}

\* Faulty variant of RetriesRemain: the retry budget is one short.
RetriesRemain_OneShort(n) == n < MAX_RETRIES - 1

\* attempt < MAX_RETRIES
RetriesRemain(n) == n < MAX_RETRIES

\* Faulty variant of IsAuthFailure: the 401 check is missing.
IsAuthFailure_Missing(status) == FALSE

\* response.status === 401
IsAuthFailure(status) == status = 401

NoResult == [type |-> "none"]
Value == [type |-> "value"]
Thrown(name, status, hint) ==
    [type |-> "error", name |-> name, status |-> status, retryAfter |-> hint]

IdleT ==
    /\ tpc = "idle"
    /\ attempt = 0
    /\ timers = {}
    /\ tlog = <<>>
    /\ tdelays = <<>>
    /\ lastError = FALSE
    /\ tresult = NoResult
    /\ tmessage = NoMessage

\* Top of the loop body: arm the deadline timer of attempt n and issue fetch.
BeginAttempt(n) ==
    /\ attempt' = n
    /\ timers' = ClearTimer(timers, attempt) \cup {n}
    /\ tpc' = "fetch"

\* Leave the call with a value or an error: the finally block clears the timer.
FinishWith(res, text) ==
    /\ tresult' = res
    /\ tmessage' = text
    /\ timers' = ClearTimer(timers, attempt)
    /\ tpc' = "done"
    /\ UNCHANGED attempt

\* Leave with a value, or with an error that carries no response body.
Finish(res) == FinishWith(res, IF res.type = "error" THEN DefaultMessage ELSE NoMessage)

\* Wait d ms inside the try block (the timer of this attempt stays armed).
Backoff(d) ==
    /\ tdelays' = Append(tdelays, d)
    /\ tpc' = "sleep"
    /\ UNCHANGED <<attempt, timers, tresult, tmessage>>

\* What the try block does with a response of the given status.
OnResponse(status, hdr, body) ==
    IF IsAuthFailure(status)
    THEN Finish(Thrown("AuthenticationError", <<>>, <<>>)) /\ UNCHANGED tdelays
    ELSE IF status \in RETRYABLE_STATUS_CODES
    THEN IF status = 429
         THEN IF RetriesRemain(attempt)
              THEN Backoff(RetryAfterMs(hdr, attempt))
              ELSE FinishWith(Thrown("RateLimitError", <<>>, RateLimitHint(hdr)), body)
                   /\ UNCHANGED tdelays
         ELSE IF RetriesRemain(attempt)
              THEN Backoff(BackoffDelay(attempt))
              ELSE FinishWith(Thrown("CacheUnavailableError", <<status>>, <<>>), body)
                   /\ UNCHANGED tdelays
    ELSE IF ~ResponseOk(status)
    THEN FinishWith(Thrown("APIError", <<status>>, <<>>), body) /\ UNCHANGED tdelays
    ELSE Finish(Value) /\ UNCHANGED tdelays

\* for (let attempt = 0; attempt <= MAX_RETRIES; attempt++)
LoopContinues(n) == n <= MAX_RETRIES

\* request() is called: first loop iteration.
TStart ==
    /\ tpc = "idle"
    /\ BeginAttempt(0)
    /\ UNCHANGED <<tlog, tdelays, lastError, tresult, tmessage>>
    /\ UNCHANGED <<uvars, qvars, dvars>>

\* fetch resolves with a response.
TResponse ==
    /\ tpc = "fetch"
    /\ \E status \in Statuses, hdr \in RetryAfterHeaders, body \in Bodies :
          /\ (hdr # <<>> => status = 429)
          /\ (body # "body1" => (status \in RETRYABLE_STATUS_CODES \/ ~ResponseOk(status)))
          /\ tlog' = Append(tlog, [kind |-> "status", status |-> status, hdr |-> hdr,
                                   body |-> body])
          /\ OnResponse(status, hdr, body)
    /\ UNCHANGED lastError
    /\ UNCHANGED <<uvars, qvars, dvars>>

\* fetch rejects with a TypeError (connection-level failure).
TNetworkError ==
    /\ tpc = "fetch"
    /\ tlog' = Append(tlog, [kind |-> "network", status |-> 0, hdr |-> <<>>,
                             body |-> NoMessage])
    /\ IF RetriesRemain(attempt)
       THEN lastError' = TRUE /\ Backoff(NetworkRetryDelay(attempt))
       ELSE Finish(Thrown("TypeError", <<>>, <<>>)) /\ UNCHANGED <<tdelays, lastError>>
    /\ UNCHANGED <<uvars, qvars, dvars>>

\* The deadline timer fires while fetch is pending: controller.abort() makes
\* fetch reject with an AbortError, which is not a TypeError and is re-thrown.
TDeadline ==
    /\ tpc = "fetch"
    /\ attempt \in timers
    /\ tlog' = Append(tlog, [kind |-> "abort", status |-> 0, hdr |-> <<>>,
                             body |-> NoMessage])
    /\ Finish(Thrown("AbortError", <<>>, <<>>))
    /\ UNCHANGED <<tdelays, lastError>>
    /\ UNCHANGED <<uvars, qvars, dvars>>

\* The deadline timer fires during the backoff wait: abort() has no effect on
\* the finished fetch, the timer is no longer pending.
TTimerDuringBackoff ==
    /\ tpc = "sleep"
    /\ attempt \in timers
    /\ timers' = timers \ {attempt}
    /\ UNCHANGED <<tpc, attempt, tlog, tdelays, lastError, tresult, tmessage>>
    /\ UNCHANGED <<uvars, qvars, dvars>>

\* The backoff wait ends: continue -> finally clears the timer -> next attempt.
\* When the loop runs out the function throws lastError ?? APIError.
TWake ==
    /\ tpc = "sleep"
    /\ IF LoopContinues(attempt + 1)
       THEN BeginAttempt(attempt + 1) /\ UNCHANGED <<tresult, tmessage>>
       ELSE Finish(IF lastError THEN Thrown("TypeError", <<>>, <<>>)
                                ELSE Thrown("APIError", <<>>, <<>>))
    /\ UNCHANGED <<tlog, tdelays, lastError>>
    /\ UNCHANGED <<uvars, qvars, dvars>>

NextT ==
    \/ TStart
    \/ TResponse
    \/ TNetworkError
    \/ TDeadline
    \/ TTimerDuringBackoff
    \/ TWake

----------------------------------------------------------------------------
(* Stream session: RaysurferQuery, src/unnamed/part_004                    *)

\* Calls the consumer makes on one session.
MaxCalls == 3

\* code.trim().length > 50
MinCodeBlockLength == 50

FILE_MODIFY_TOOLS == {"Write", "Edit", "MultiEdit", "NotebookEdit"}

\* Paths: loc is where the path resolves to (the scratch directory
\* <workDir>/.raysurfer_code, the working directory, or no file at all).
Path(loc, name) == [loc |-> loc, name |-> name]
NoPath == Path("none", "none")
GeneratedCodePath == Path("virtual", "generated-code.ts")

\* Messages of the wrapped stream: a tool_use or tool_result block (tool),
\* with a text block when codeLen > 0.  codeLen is the length of the content
\* of the text's fenced code block, pad the length of the white space around
\* that content.
Msg(type, subtype, tool, path, codeLen) ==
    [type |-> type, subtype |-> subtype, tool |-> tool, path |-> path,
     codeLen |-> codeLen, pad |-> 0]
\* The message with pad characters of white space around the block's content.
Padded(m, pad) == [m EXCEPT !.pad = pad, !.codeLen = @ + pad]
NoMsg == Msg("none", "none", "none", NoPath, 0)
\* A Write tool_use block and a text block whose code block is 50 characters
\* of code followed by a blank line.
MsgWrite == Padded(Msg("assistant", "none", "Write", Path("work", "out.ts"), 50), 2)
MsgText == Msg("assistant", "none", "text", NoPath, 60)
MsgSuccess == Msg("result", "success", "none", NoPath, 0)
MsgFailure == Msg("result", "error_during_execution", "none", NoPath, 0)
\* A Bash tool_use whose command redirects into a file of the scratch
\* directory (`... > .raysurfer_code/gen.py`), and a tool_result block.
MsgBash == Msg("assistant", "none", "Bash", Path("scratch", "gen.py"), 0)
MsgToolResult == Msg("assistant", "none", "tool_result", NoPath, 0)
\* A Write tool_use block followed by a text block with a code block.
MsgWriteText == Padded(Msg("assistant", "none", "Write", Path("work", "lib.ts"), 70), 2)
Messages ==
    {MsgWrite, MsgText, MsgSuccess, MsgFailure, MsgBash, MsgToolResult, MsgWriteText}

\* A retrieved artifact (CodeFile): its filename and its source.
CodeFile(filename, source) == [filename |-> filename, source |-> source]

\* Artifact lists the retrieval request may return: none, one, two with
\* distinct filenames, two under one filename, and two of which the second
\* has a filename with a parent-directory segment.
RetrievalResults ==
    {<<>>,
     <<CodeFile("a1.ts", "s1")>>,
     <<CodeFile("a1.ts", "s1"), CodeFile("a2.ts", "s2")>>,
     <<CodeFile("a1.ts", "s1"), CodeFile("a1.ts", "s2")>>,
     <<CodeFile("a1.ts", "s1"), CodeFile("../e.ts", "s2")>>}

\* Results of calls: of the wrapped stream's methods and of the session's.
Res(t, msg, ord, by) == [t |-> t, msg |-> msg, ord |-> ord, by |-> by]
RNone == Res("none", NoMsg, 0, "none")
RYield(m, k) == Res("yield", m, k, "none")
RDone == Res("done", NoMsg, 0, "none")
RRaised(by) == Res("raised", NoMsg, 0, by)
\* Faulty variant of RForwarded: the control call never reaches the wrapped
\* stream and raises instead.
RForwarded_Lost == Res("raised", NoMsg, 0, "notInitialized")

\* A control call's result: the wrapped stream's method was called.
RForwarded == Res("forwarded", NoMsg, 0, "none")
RVoid == Res("void", NoMsg, 0, "none")

\* A call in flight.  innerAtCall: _inner was set when the call was made;
\* ranBody: the call ran the body of _uploadCache; late: a return() was over
\* when the call was made.
Call(kind, pc, innerAtCall) ==
    [kind |-> kind, pc |-> pc, innerAtCall |-> innerAtCall, ranBody |-> FALSE,
     resp |-> RNone, late |-> FALSE]

\* A call that is over; what it returned is kept in stats.
Finished == Call("none", "done", FALSE)

\* The record of a call that is over.
Outcome(kind, innerAtCall, result) ==
    [kind |-> kind, innerAtCall |-> innerAtCall, result |-> result]

InitStats ==
    [initRuns |-> 0,          \* times _initialize was invoked
     retrievals |-> 0,        \* retrieval requests sent
     opens |-> 0,             \* times the wrapped stream was opened
     finalizeRuns |-> 0,      \* times the body of _uploadCache ran
     produced |-> 0,          \* files the body of _uploadCache collected
     succeededAtFinalize |-> FALSE, \* _taskSucceeded when the body ran
     candidates |-> <<>>,      \* _generatedCodeBlocks when the body ran
     synthetic |-> <<>>,       \* entries the body added for code blocks
     retrievalFailed |-> FALSE,
     writeFailed |-> FALSE,
     sdkFailed |-> FALSE,
     uploadFailed |-> FALSE,
     successEmitted |-> FALSE, \* the wrapped stream yielded result/success
     innerCount |-> 0,         \* results the wrapped stream gave to next()
     nextResults |-> 0,        \* next() calls that returned such a result
     firstNext |-> RNone,      \* what the first next() to end returned
     innerFirst |-> RNone,     \* the wrapped stream's first result
     exhausted |-> FALSE,      \* a next() has returned done
     returned |-> FALSE,       \* a return() on an opened session is over
     closed |-> FALSE,         \* a return() is over
     lateInit |-> FALSE,       \* a next() made after that invoked _initialize
     lateYield |-> FALSE,      \* a next() made after that returned a message
     cancelled |-> FALSE,      \* a throw() or close() on an opened session is over
     streamRaised |-> FALSE,   \* a next() rejected with the wrapped stream's error
     lastNext |-> RNone,       \* what the latest next() to end returned
     controlStartedInit |-> FALSE, \* a control call invoked _initialize
     lastControl |-> Outcome("none", FALSE, RNone),
                               \* the latest control call to end
     finOutcome |-> Outcome("none", FALSE, RNone)]
                               \* the call that ran the body of _uploadCache

\* The counters after a call of the given kind ended with result r.
Ended(st, kind, innerAtCall, r) ==
    [st EXCEPT
        !.lastNext = IF kind = "next" THEN r ELSE @,
        !.lastControl = IF kind = "control" THEN Outcome(kind, innerAtCall, r) ELSE @,
        !.nextResults = IF kind = "next" /\ r.by # "init" THEN @ + 1 ELSE @,
        !.firstNext = IF kind = "next" /\ @ = RNone THEN r ELSE @,
        !.exhausted = @ \/ (kind = "next" /\ r.t = "done"),
        !.returned = @ \/ (kind = "return" /\ innerAtCall),
        !.closed = @ \/ kind = "return",
        !.cancelled = @ \/ (kind \in {"throw", "close"} /\ innerAtCall),
        !.streamRaised = @ \/ (kind = "next" /\ r = RRaised("inner"))]

\* The counters after the call that ran the body of _uploadCache ended.
EndedFinalizer(st, kind, innerAtCall, r) ==
    [Ended(st, kind, innerAtCall, r) EXCEPT
        !.finOutcome = Outcome(kind, innerAtCall, r)]

\* Ended or EndedFinalizer, as the call's record says.
EndedCall(st, call, r) ==
    IF call.ranBody THEN EndedFinalizer(st, call.kind, call.innerAtCall, r)
    ELSE Ended(st, call.kind, call.innerAtCall, r)

\* The counters after the wrapped stream gave result r to a next().
Answered(st, r) ==
    [st EXCEPT !.innerCount = @ + 1,
               !.innerFirst = IF @ = RNone THEN r ELSE @]

\* State after the constructor, for a given configuration.
Constructed(ce, pt, pr) ==
    /\ cacheEnabled = ce
    /\ hasPromptText = pt
    /\ parseRun = pr
    /\ inner = "null"
    /\ initPromise = "null"
    /\ initPc = "idle"
    /\ raysurfer = FALSE
    /\ cachedFiles = <<>>
    /\ addToLlmPrompt = <<>>
    /\ sdkPrompt = <<>>
    /\ initWrites = {}
    /\ modifiedFilePaths = <<>>
    /\ taskSucceeded = FALSE
    /\ cacheUploadDone = FALSE
    /\ messageCount = 0
    /\ generatedCodeBlocks = <<>>
    /\ bashGeneratedFiles = <<>>
    /\ executionLogs = 0
    /\ filesToCache = <<>>
    /\ uploadIdx = 0
    /\ finalizer = 0
    /\ calls = <<>>
    /\ innerQueue = <<>>
    /\ innerPos = 0
    /\ innerFinished = FALSE
    /\ innerLast = RNone
    /\ netLog = <<>>
    /\ stats = InitStats

IdleQ == Constructed(FALSE, FALSE, FALSE)

\* Sample rates and Math.random() draws are counted in halves.
Halves(x) == 2 * x

DEFAULT_RUN_PARSE_SAMPLE_RATE == 1

\* No runParseSampleRate option / no environment variable.
NotSet == -1

\* An environment value that is no number between 0 and 1.
InvalidRate == 3

\* Valid sample rates: 0, 0.5 and 1.
SampleRates == {0, 1, 2}

\* Values of Math.random(): 0 and 0.5.
RandomDraws == {0, 1}

\* resolveRunParseSampleRate for a valid or absent option (an invalid option
\* makes the constructor throw: no session exists).
ResolveRunParseSampleRate(configured, envValue) ==
    IF configured # NotSet THEN configured
    ELSE IF envValue = NotSet THEN Halves(DEFAULT_RUN_PARSE_SAMPLE_RATE)
    ELSE IF envValue < 0 \/ envValue > Halves(1)
         THEN Halves(DEFAULT_RUN_PARSE_SAMPLE_RATE)
    ELSE envValue

\* shouldParseRunForAiVoting, with the value Math.random() returns.
ShouldParseRunForAiVoting(sampleRate, random) ==
    IF sampleRate >= Halves(1) THEN TRUE
    ELSE IF sampleRate <= 0 THEN FALSE
    ELSE random < sampleRate

\* The constructor takes the sampling decision.  It is only read when
\* lookups are enabled: the sessions without lookups are taken with the
\* default rate.
InitQ ==
    \E ce \in BOOLEAN, pt \in BOOLEAN,
       configured \in SampleRates \cup {NotSet},
       envValue \in SampleRates \cup {NotSet, InvalidRate},
       random \in RandomDraws :
        /\ (ce /\ pt) \/ (configured = NotSet /\ envValue = NotSet)
        /\ Constructed(ce, pt,
              ShouldParseRunForAiVoting(
                  ResolveRunParseSampleRate(configured, envValue), random))

\* ---- _initialize ---------------------------------------------------------

\* Faulty variant of LookupWanted: the lookup does not depend on the API key.
LookupWanted_IgnoresKey == hasPromptText

\* this._cacheEnabled && this._promptText
LookupWanted == cacheEnabled /\ hasPromptText

\* Faulty variant of EnsureInitStarts: the _initPromise check is missing.
EnsureInitStarts_NoPromiseCheck == inner = "null"

\* _ensureInit starts _initialize: no wrapped stream and no init task yet.
EnsureInitStarts == inner = "null" /\ initPromise = "null"

\* Faulty variant of RetrievalErrorCaught: no try/catch around the lookup.
RetrievalErrorCaught_Missing == FALSE

\* The try/catch around getCodeFiles swallows its error.
RetrievalErrorCaught == TRUE

\* Insertion into a Set, kept in insertion order.
AddPath(s, p) == IF \E i \in 1..Len(s) : s[i] = p THEN s ELSE Append(s, p)

RECURSIVE AddPaths(_, _)
AddPaths(s, ps) == IF ps = <<>> THEN s ELSE AddPaths(AddPath(s, Head(ps)), Tail(ps))

\* join(this._workDir, CACHE_DIR), as path segments below the working directory.
CacheDirSegments == <<"work", ".raysurfer_code">>

\* The segments of a filename (the parts between "/").
Segments(filename) == IF filename = "../e.ts" THEN <<"..", "e.ts">> ELSE <<filename>>

RECURSIVE NormalizeSegments(_, _)
\* The normalization path.join applies: a ".." segment removes the segment
\* before it.
NormalizeSegments(segs, acc) ==
    IF segs = <<>> THEN acc
    ELSE IF Head(segs) = ".."
    THEN NormalizeSegments(Tail(segs),
             IF acc = <<>> THEN acc ELSE SubSeq(acc, 1, Len(acc) - 1))
    ELSE NormalizeSegments(Tail(segs), Append(acc, Head(segs)))

\* join(cacheDir, file.filename): a path of the scratch directory when the
\* normalized path is below cacheDir, else a path of the working directory.
JoinCacheDir(filename) ==
    LET p == NormalizeSegments(CacheDirSegments \o Segments(filename), <<>>) IN
    Path(IF Len(p) > Len(CacheDirSegments)
            /\ SubSeq(p, 1, Len(CacheDirSegments)) = CacheDirSegments
         THEN "scratch" ELSE "work",
         p[Len(p)])

\* The paths of the first k files, as _modifiedFilePaths receives them.
CachePaths(files, k) == [i \in 1..k |-> JoinCacheDir(files[i].filename)]

\* writeFileSync(filePath, file.source): the filesystem is a set of
\* <<path, content>> pairs, one per path.
WriteFileSync(dir, f) ==
    {e \in dir : e[1] # JoinCacheDir(f.filename)}
        \cup {<<JoinCacheDir(f.filename), f.source>>}

RECURSIVE WriteCachedFiles(_, _, _)
\* The write loop over the first k files, in list order.
WriteCachedFiles(dir, files, k) ==
    IF k = 0 THEN dir
    ELSE WriteFileSync(WriteCachedFiles(dir, files, k - 1), files[k])

\* Faulty variant of FormatLlmPrompt: only the first file gets a heading.
FormatLlmPrompt_FirstOnly(files) ==
    IF Len(files) = 0 THEN <<>> ELSE <<files[1].filename>>

\* formatLlmPrompt: the empty string for no file, else a text with one
\* heading per file; the text is kept as the filenames its headings name.
FormatLlmPrompt(files) ==
    IF Len(files) = 0 THEN <<>>
    ELSE [i \in 1..Len(files) |-> files[i].filename]

\* The systemPrompt option the session was given (none).
SystemPrompt == <<>>

\* augmentSystemPrompt(systemPrompt, addition)
AugmentSystemPrompt(systemPrompt, addition) ==
    IF addition = <<>> THEN systemPrompt ELSE systemPrompt \o addition

\* _ensureInit up to its await, run by a call: the first trigger invokes
\* _initialize, which runs up to its first await (the lookup, or the import).
EnsureInit(st) ==
    IF EnsureInitStarts
    THEN /\ initPromise' = "pending"
         /\ IF LookupWanted
            THEN /\ raysurfer' = TRUE
                 /\ initPc' = "retrieving"
                 /\ stats' = [st EXCEPT !.initRuns = @ + 1, !.retrievals = @ + 1]
            ELSE /\ initPc' = "importing"
                 /\ stats' = [st EXCEPT !.initRuns = @ + 1]
                 /\ UNCHANGED raysurfer
         /\ UNCHANGED <<inner, cachedFiles, addToLlmPrompt, sdkPrompt, initWrites>>
    ELSE UNCHANGED initvars /\ stats' = st

\* getCodeFiles resolves: the files are written to the scratch directory, the
\* first `written` of them successfully (written < Len(files): a write threw).
RetrievalReturns ==
    /\ initPc = "retrieving"
    /\ \E files \in RetrievalResults : \E written \in 0..Len(files) :
          /\ cachedFiles' = files
          /\ addToLlmPrompt' = FormatLlmPrompt(files)
          /\ initWrites' = WriteCachedFiles(initWrites, files, written)
          /\ modifiedFilePaths' = AddPaths(modifiedFilePaths, CachePaths(files, written))
          /\ stats' = [stats EXCEPT !.writeFailed = written < Len(files)]
    /\ initPc' = "importing"
    /\ UNCHANGED <<inner, initPromise, raysurfer, sdkPrompt>>
    /\ UNCHANGED <<cfgvars, trackvars, finvars, streamvars, calls, tvars, dvars>>

\* getCodeFiles rejects (any Transport error).
RetrievalFails ==
    /\ initPc = "retrieving"
    /\ IF RetrievalErrorCaught
       THEN initPc' = "importing" /\ UNCHANGED initPromise
       ELSE initPc' = "failed" /\ initPromise' = "rejected"
    /\ stats' = [stats EXCEPT !.retrievalFailed = TRUE]
    /\ UNCHANGED <<inner, raysurfer, cachedFiles, addToLlmPrompt, sdkPrompt, initWrites>>
    /\ UNCHANGED <<cfgvars, trackvars, finvars, streamvars, modifiedFilePaths, calls, tvars, dvars>>

\* The SDK import resolves and sdkQueryFn opens the wrapped stream.
SdkOpens ==
    /\ initPc = "importing"
    /\ inner' = "query"
    /\ sdkPrompt' = AugmentSystemPrompt(SystemPrompt, addToLlmPrompt)
    /\ initPromise' = "resolved"
    /\ initPc' = "done"
    /\ stats' = [stats EXCEPT !.opens = @ + 1]
    /\ UNCHANGED <<raysurfer, cachedFiles, addToLlmPrompt, initWrites>>
    /\ UNCHANGED <<cfgvars, trackvars, finvars, streamvars, modifiedFilePaths, calls, tvars, dvars>>

\* The SDK import (or sdkQueryFn) throws: _initialize rejects.
SdkFails ==
    /\ initPc = "importing"
    /\ initPromise' = "rejected"
    /\ initPc' = "failed"
    /\ stats' = [stats EXCEPT !.sdkFailed = TRUE]
    /\ UNCHANGED <<inner, raysurfer, cachedFiles, addToLlmPrompt, sdkPrompt, initWrites>>
    /\ UNCHANGED <<cfgvars, trackvars, finvars, streamvars, modifiedFilePaths, calls, tvars, dvars>>

\* ---- _trackMessage -------------------------------------------------------

\* msg.type === "result" && msg.subtype === "success"
IsSuccessResult(m) == m.type = "result" /\ m.subtype = "success"

\* A tool_use block of a file-modification tool with a target path.
IsFileModification(m) ==
    m.type = "assistant" /\ m.tool \in FILE_MODIFY_TOOLS /\ m.path # NoPath

\* code.trim().length
TrimmedLength(m) == m.codeLen - m.pad

\* Faulty variant of IsCodeBlockCandidate: the minimum itself is accepted.
IsCodeBlockCandidate_AtLeast(m) ==
    m.type = "assistant" /\ TrimmedLength(m) >= MinCodeBlockLength

\* A text block holding a fenced code block longer than the minimum.
IsCodeBlockCandidate(m) ==
    m.type = "assistant" /\ TrimmedLength(m) > MinCodeBlockLength

\* A Bash tool_use whose command names an output file with a trackable
\* extension (_extractBashOutputFiles).
IsBashOutput(m) == m.type = "assistant" /\ m.tool = "Bash" /\ m.path # NoPath

\* A tool_result block with content, in a sampled-in session.
IsCapturedLog(m) == m.type = "assistant" /\ m.tool = "tool_result" /\ parseRun

\* Faulty variant of TaskSucceededAfter: every terminal message sets the flag.
TaskSucceededAfter_LastTerminal(flag, m) ==
    IF m.type = "result" THEN IsSuccessResult(m) ELSE flag

\* if (msg.type === "result" && msg.subtype === "success") this._taskSucceeded = true
TaskSucceededAfter(flag, m) == IF IsSuccessResult(m) THEN TRUE ELSE flag

TrackMessage(m) ==
    /\ messageCount' = messageCount + 1
    /\ bashGeneratedFiles' =
          IF IsBashOutput(m) THEN AddPath(bashGeneratedFiles, m.path)
          ELSE bashGeneratedFiles
    /\ executionLogs' = IF IsCapturedLog(m) THEN executionLogs + 1 ELSE executionLogs
    /\ modifiedFilePaths' =
          IF IsFileModification(m) THEN AddPath(modifiedFilePaths, m.path)
          ELSE modifiedFilePaths
    /\ generatedCodeBlocks' =
          IF IsCodeBlockCandidate(m) THEN Append(generatedCodeBlocks, TrimmedLength(m))
          ELSE generatedCodeBlocks
    /\ taskSucceeded' = TaskSucceededAfter(taskSucceeded, m)

\* ---- _uploadCache --------------------------------------------------------

\* Faulty variant of AlreadyUploaded: the guard flag is not consulted.
AlreadyUploaded_NoGuard == FALSE

\* if (this._cacheUploadDone) return;
AlreadyUploaded == cacheUploadDone

\* filePath.includes(CACHE_DIR)
IncludesCacheDir(p) == p.loc = "scratch"

FileEntry(p, n) == [path |-> p, codeLen |-> n]

Max(a, b) == IF a > b THEN a ELSE b

RECURSIVE LargestBlock(_)
LargestBlock(blocks) ==
    IF Len(blocks) = 1 THEN blocks[1]
    ELSE Max(blocks[1], LargestBlock(Tail(blocks)))

RECURSIVE ReadTracked(_, _)
\* The loop over _modifiedFilePaths: `readable` are the paths that exist now
\* and hold text.
ReadTracked(paths, readable) ==
    IF paths = <<>> THEN <<>>
    ELSE LET p == Head(paths)
             rest == ReadTracked(Tail(paths), readable)
         IN IF ~IncludesCacheDir(p) /\ p \in readable
            THEN <<FileEntry(p, 0)>> \o rest
            ELSE rest

RECURSIVE ReadBash(_, _)
\* The loop over _bashGeneratedFiles: paths already in _modifiedFilePaths are
\* left to the first loop.
ReadBash(paths, readable) ==
    IF paths = <<>> THEN <<>>
    ELSE LET p == Head(paths)
             rest == ReadBash(Tail(paths), readable)
         IN IF (\A i \in 1..Len(modifiedFilePaths) : modifiedFilePaths[i] # p)
               /\ p \in readable
            THEN <<FileEntry(p, 0)>> \o rest
            ELSE rest

FilesToCacheOf(readable) ==
    ReadTracked(modifiedFilePaths, readable)
        \o ReadBash(bashGeneratedFiles, readable)
        \o (IF Len(generatedCodeBlocks) > 0
            THEN <<FileEntry(GeneratedCodePath, LargestBlock(generatedCodeBlocks))>>
            ELSE <<>>)

\* The entries of the collected list that stand for an extracted code block.
SyntheticOf(files) == SelectSeq(files, LAMBDA e : e.path = GeneratedCodePath)

\* Paths the filesystem may hold as text files when _uploadCache reads them.
TrackedPaths == {modifiedFilePaths[i] : i \in 1..Len(modifiedFilePaths)}

\* Faulty variant of ShouldUpload: the success flag is not part of the condition.
ShouldUpload_IgnoresSuccess == cacheEnabled /\ raysurfer /\ hasPromptText

\* this._cacheEnabled && this._raysurfer && this._taskSucceeded && this._promptText
ShouldUpload == cacheEnabled /\ raysurfer /\ taskSucceeded /\ hasPromptText

\* Faulty variant of VoteBlocks: the list does not depend on the sampling.
VoteBlocks_Always == cachedFiles

\* cachedBlocksForVoting
VoteBlocks == IF parseRun THEN cachedFiles ELSE <<>>

\* joinedLogs: the captured logs, or none (0) in a sampled-out session.
JoinedLogs == IF parseRun /\ executionLogs > 0 THEN executionLogs ELSE 0

\* Faulty variant of CachedCodeBlocksFor: the list goes with every upload.
CachedCodeBlocksFor_Every(i, blocks) == blocks

\* cachedCodeBlocks of the i-th upload (0-based): the list on the first only.
CachedCodeBlocksFor(i, blocks) == IF i = 0 /\ Len(blocks) > 0 THEN blocks ELSE <<>>

\* Requests one run of _uploadCache makes when none fails.
NumRequests(files) == IF Len(files) > 0 THEN Len(files) ELSE Len(VoteBlocks)

\* The k-th request: an upload per file with the feedback list on the first
\* only, or, with no file, a vote per cached block.
Request(k, files) ==
    IF Len(files) > 0
    THEN [kind |-> "upload", file |-> files[k],
          feedback |-> CachedCodeBlocksFor(k - 1, VoteBlocks),
          logs |-> JoinedLogs, voting |-> parseRun]
    ELSE [kind |-> "vote", file |-> FileEntry(NoPath, 0),
          feedback |-> <<VoteBlocks[k]>>, logs |-> 0, voting |-> FALSE]

\* The body of _uploadCache sends requests at all.
WillUpload(files) == ShouldUpload /\ NumRequests(files) > 0

\* _uploadCache, called by call c, up to its first await.  st: the counters
\* as the calling action leaves them.
UploadCache(c, readable, st) ==
    IF AlreadyUploaded
    THEN UNCHANGED finvars /\ stats' = st
    ELSE LET files == FilesToCacheOf(readable) IN
         /\ cacheUploadDone' = TRUE
         /\ stats' = [st EXCEPT !.finalizeRuns = @ + 1,
                                 !.produced = Len(files),
                                 !.succeededAtFinalize = taskSucceeded,
                                 !.candidates = generatedCodeBlocks,
                                 !.synthetic = SyntheticOf(files)]
         /\ IF WillUpload(files)
            THEN /\ filesToCache' = files
                 /\ uploadIdx' = 0
                 /\ finalizer' = c
                 /\ netLog' = Append(netLog, Request(1, files))
            ELSE UNCHANGED <<filesToCache, uploadIdx, finalizer, netLog>>

\* Call c has to wait for a request of _uploadCache.
AwaitsUpload(readable) == ~AlreadyUploaded /\ WillUpload(FilesToCacheOf(readable))

\* ---- the consumer's calls ------------------------------------------------

AllDone == \A i \in 1..Len(calls) : calls[i].pc = "done"

\* The paths _uploadCache reads: tracked paths outside the scratch directory
\* and the paths found in Bash commands.
ReadCandidates ==
    {p \in TrackedPaths : ~IncludesCacheDir(p)}
        \cup {bashGeneratedFiles[i] : i \in 1..Len(bashGeneratedFiles)}

\* Faulty variant of NextReturn: a terminal result message is reported as done.
NextReturn_DropsResult(r) == IF r.msg.type = "result" THEN RDone ELSE r

\* `return result;` of next(): the wrapped stream's result, as it is.
NextReturn(r) == r

\* Faulty variant of ReturnFinalizes: return() forwards without calling _uploadCache.
ReturnFinalizes_Never == FALSE

\* return() runs _uploadCache before forwarding (it does when _inner is set).
ReturnFinalizes == TRUE

\* Faulty variant of UploadErrorCaught: no try/catch around the upload requests.
UploadErrorCaught_Missing == FALSE

\* The try/catch around the upload and vote requests swallows their error.
UploadErrorCaught == TRUE

\* The result the wrapped stream gives to return().
RInnerReturn == Res("done", NoMsg, 0, "inner.return")

\* Results the wrapped stream may give to throw().
InnerThrowResults == {RRaised("inner"), Res("done", NoMsg, 0, "inner.throw")}

\* next() is called: it starts with _ensureInit.
CallNext ==
    /\ Len(calls) < MaxCalls
    /\ calls' = Append(calls, [Call("next", "awaitInit", inner = "query")
                                  EXCEPT !.late = stats.closed])
    /\ EnsureInit([stats EXCEPT !.lateInit = @ \/ (stats.closed /\ EnsureInitStarts)])
    /\ UNCHANGED <<cfgvars, trackvars, finvars, streamvars, modifiedFilePaths, tvars, dvars>>

\* A control method (interrupt, setModel, ...) is called: it starts with
\* _ensureInit as well.
CallControl ==
    /\ Len(calls) < MaxCalls
    /\ calls' = Append(calls, Call("control", "awaitInit", inner = "query"))
    /\ EnsureInit([stats EXCEPT !.controlStartedInit = @ \/ EnsureInitStarts])
    /\ UNCHANGED <<cfgvars, trackvars, finvars, streamvars, modifiedFilePaths, tvars, dvars>>

\* `await this._ensureInit()` resumes in call c: the request goes to the
\* wrapped stream, or the rejection of _initialize is re-thrown.
AfterInit(c) ==
    /\ calls[c].pc = "awaitInit"
    /\ inner = "query" \/ initPromise = "rejected"
    /\ IF inner = "query"
       THEN /\ calls' = [calls EXCEPT ![c].pc = "awaitInner"]
            /\ innerQueue' = Append(innerQueue, c)
            /\ UNCHANGED stats
       ELSE /\ calls' = [calls EXCEPT ![c] = Finished]
            /\ stats' = Ended(stats, calls[c].kind, calls[c].innerAtCall, RRaised("init"))
            /\ UNCHANGED innerQueue
    /\ UNCHANGED <<innerPos, innerFinished, innerLast>>
    /\ UNCHANGED <<cfgvars, initvars, trackvars, finvars, modifiedFilePaths, tvars, dvars>>

\* The wrapped stream yields message m to the next() of call c, which
\* tracks it and returns the result.
InnerYields(c) ==
    /\ innerQueue # <<>> /\ Head(innerQueue) = c
    /\ calls[c].kind = "next"
    /\ ~innerFinished
    /\ \E m \in Messages :
          LET r == RYield(m, innerPos + 1)
              st == [Answered(stats, r) EXCEPT
                        !.successEmitted = @ \/ IsSuccessResult(m),
                        !.lateYield = @ \/ calls[c].late]
          IN
          /\ innerLast' = r
          /\ TrackMessage(m)
          /\ stats' = Ended(st, "next", calls[c].innerAtCall, NextReturn(r))
    /\ calls' = [calls EXCEPT ![c] = Finished]
    /\ innerPos' = innerPos + 1
    /\ innerQueue' = Tail(innerQueue)
    /\ UNCHANGED innerFinished
    /\ UNCHANGED <<cfgvars, initvars, finvars, tvars, dvars>>

\* The wrapped stream reports done to the next() of call c, which runs
\* _uploadCache and then returns the result.
InnerDone(c) ==
    /\ innerQueue # <<>> /\ Head(innerQueue) = c
    /\ calls[c].kind = "next"
    /\ innerLast' = RDone
    /\ innerFinished' = TRUE
    /\ innerQueue' = Tail(innerQueue)
    /\ \E readable \in SUBSET ReadCandidates :
          IF AwaitsUpload(readable)
          THEN /\ UploadCache(c, readable, Answered(stats, RDone))
               /\ calls' = [calls EXCEPT ![c].pc = "finalizing", ![c].resp = RDone,
                                         ![c].ranBody = TRUE]
          ELSE /\ UploadCache(c, readable,
                     EndedCall(Answered(stats, RDone),
                               [calls[c] EXCEPT !.ranBody = ~AlreadyUploaded],
                               NextReturn(RDone)))
               /\ calls' = [calls EXCEPT ![c] = Finished]
    /\ UNCHANGED innerPos
    /\ UNCHANGED <<cfgvars, initvars, trackvars, modifiedFilePaths, tvars, dvars>>

\* The wrapped stream's next() rejects: next() of call c rejects with it.
InnerRaises(c) ==
    /\ innerQueue # <<>> /\ Head(innerQueue) = c
    /\ calls[c].kind = "next"
    /\ ~innerFinished
    /\ innerLast' = RRaised("inner")
    /\ innerFinished' = TRUE
    /\ innerQueue' = Tail(innerQueue)
    /\ calls' = [calls EXCEPT ![c] = Finished]
    /\ stats' = Ended(Answered(stats, RRaised("inner")), "next",
                      calls[c].innerAtCall, RRaised("inner"))
    /\ UNCHANGED innerPos
    /\ UNCHANGED <<cfgvars, initvars, trackvars, finvars, modifiedFilePaths, tvars, dvars>>

\* The wrapped stream answers the return(), throw() or control call of c.
InnerAnswers(c) ==
    /\ innerQueue # <<>> /\ Head(innerQueue) = c
    /\ calls[c].kind \in {"return", "throw", "control"}
    /\ \E r \in IF calls[c].kind = "return" THEN {RInnerReturn}
                ELSE IF calls[c].kind = "throw" THEN InnerThrowResults
                ELSE {RForwarded} :
          stats' = EndedCall(stats, calls[c], r)
    /\ calls' = [calls EXCEPT ![c] = Finished]
    /\ innerFinished' = (innerFinished \/ calls[c].kind \in {"return", "throw"})
    /\ innerQueue' = Tail(innerQueue)
    /\ UNCHANGED <<innerPos, innerLast>>
    /\ UNCHANGED <<cfgvars, initvars, trackvars, finvars, modifiedFilePaths, tvars, dvars>>

\* return() is called.
CallReturn ==
    /\ Len(calls) < MaxCalls
    /\ LET c == Len(calls) + 1 IN
       IF inner = "query"
       THEN IF ReturnFinalizes
            THEN \E readable \in SUBSET ReadCandidates :
                    /\ UploadCache(c, readable, stats)
                    /\ IF AwaitsUpload(readable)
                       THEN /\ calls' = Append(calls,
                                   [Call("return", "finalizing", TRUE)
                                       EXCEPT !.ranBody = TRUE])
                            /\ UNCHANGED innerQueue
                       ELSE /\ calls' = Append(calls,
                                   [Call("return", "awaitInner", TRUE)
                                       EXCEPT !.ranBody = ~AlreadyUploaded])
                            /\ innerQueue' = Append(innerQueue, c)
            ELSE /\ calls' = Append(calls, Call("return", "awaitInner", TRUE))
                 /\ innerQueue' = Append(innerQueue, c)
                 /\ UNCHANGED <<finvars, stats>>
       ELSE /\ calls' = Append(calls, Finished)
            /\ stats' = Ended(stats, "return", FALSE, RDone)
            /\ UNCHANGED <<finvars, innerQueue>>
    /\ UNCHANGED <<innerPos, innerFinished, innerLast>>
    /\ UNCHANGED <<cfgvars, initvars, trackvars, modifiedFilePaths, tvars, dvars>>

\* throw(e) is called.
CallThrow ==
    /\ Len(calls) < MaxCalls
    /\ IF inner = "query"
       THEN /\ calls' = Append(calls, Call("throw", "awaitInner", TRUE))
            /\ innerQueue' = Append(innerQueue, Len(calls) + 1)
            /\ UNCHANGED stats
       ELSE /\ calls' = Append(calls, Finished)
            /\ stats' = Ended(stats, "throw", FALSE, RRaised("arg"))
            /\ UNCHANGED innerQueue
    /\ UNCHANGED <<innerPos, innerFinished, innerLast>>
    /\ UNCHANGED <<cfgvars, initvars, trackvars, finvars, modifiedFilePaths, tvars, dvars>>

\* close() is called (also by Symbol.asyncDispose): synchronous.
CallClose ==
    /\ Len(calls) < MaxCalls
    /\ calls' = Append(calls, Finished)
    /\ innerFinished' = (innerFinished \/ inner = "query")
    /\ stats' = Ended(stats, "close", inner = "query", RVoid)
    /\ UNCHANGED <<innerQueue, innerPos, innerLast>>
    /\ UNCHANGED <<cfgvars, initvars, trackvars, finvars, modifiedFilePaths, tvars, dvars>>

\* The request _uploadCache waits for is answered (ok) or fails.  On the last
\* answer, or on a failure, _uploadCache returns and call c goes on: next()
\* returns its result, return() forwards to the wrapped stream.
UploadAnswered(c) ==
    /\ finalizer = c
    /\ c # 0
    /\ \E ok \in BOOLEAN :
          LET more == ok /\ uploadIdx + 1 < NumRequests(filesToCache)
              st == [stats EXCEPT !.uploadFailed = @ \/ ~ok]
          IN
          /\ uploadIdx' = uploadIdx + 1
          /\ IF more
             THEN /\ netLog' = Append(netLog, Request(uploadIdx + 2, filesToCache))
                  /\ stats' = st
                  /\ UNCHANGED <<finalizer, calls, innerQueue>>
             ELSE /\ finalizer' = 0
                  /\ UNCHANGED netLog
                  /\ IF ~ok /\ ~UploadErrorCaught
                     THEN /\ calls' = [calls EXCEPT ![c] = Finished]
                          /\ stats' = EndedCall(st, calls[c], RRaised("upload"))
                          /\ UNCHANGED innerQueue
                     ELSE IF calls[c].kind = "next"
                     THEN /\ calls' = [calls EXCEPT ![c] = Finished]
                          /\ stats' = EndedCall(st, calls[c], NextReturn(calls[c].resp))
                          /\ UNCHANGED innerQueue
                     ELSE /\ calls' = [calls EXCEPT ![c].pc = "awaitInner"]
                          /\ innerQueue' = Append(innerQueue, c)
                          /\ stats' = st
    /\ UNCHANGED <<cacheUploadDone, filesToCache>>
    /\ UNCHANGED <<innerPos, innerFinished, innerLast>>
    /\ UNCHANGED <<cfgvars, initvars, trackvars, modifiedFilePaths, tvars, dvars>>

ResumeAfterInit == \E c \in 1..Len(calls) : AfterInit(c)
StreamYields == \E c \in 1..Len(calls) : InnerYields(c)
StreamDone == \E c \in 1..Len(calls) : InnerDone(c)
StreamRaises == \E c \in 1..Len(calls) : InnerRaises(c)
StreamAnswers == \E c \in 1..Len(calls) : InnerAnswers(c)
UploadResponse == \E c \in 1..Len(calls) : UploadAnswered(c)

NextQ ==
    \/ CallNext
    \/ CallControl
    \/ CallReturn
    \/ CallThrow
    \/ CallClose
    \/ RetrievalReturns
    \/ RetrievalFails
    \/ SdkOpens
    \/ SdkFails
    \/ ResumeAfterInit
    \/ StreamYields
    \/ StreamDone
    \/ StreamRaises
    \/ StreamAnswers
    \/ UploadResponse

----------------------------------------------------------------------------
(* Change detector: listFilesRecursive, readUtf8Text, hashContent,         *)
(* snapshotHashes, collectChangedFiles, src/unnamed/part_008               *)

\* Code units of "/" and "\": path.sep is one of them.
Slash == 47
Backslash == 92
Separators == {Slash, Backslash}

\* Files that may exist under tempdir.  A file is the sequence of names from
\* tempdir down to it, a name a sequence of code units: "a.t", "a/b", "aB".
FileDot == << <<97, 46, 116>> >>
FileNested == << <<97>>, <<98>> >>
FileUpper == << <<97, 66>> >>
Files == {FileDot, FileNested, FileUpper}

\* File contents as bytes: "x", "y", "x" followed by a null byte, and a byte
\* that is not valid UTF-8.  Absent: there is no such file.
Absent == <<-1>>
Contents == {<<120>>, <<121>>, <<120, 0>>, <<255>>}

\* resolve(dir, entry.name), taken relative to tempdir: the names joined by
\* path.sep (relative(resolvedTempdir, path) strips the common prefix again).
RECURSIVE NativePath(_)
NativePath(f) ==
    IF Len(f) = 1 THEN f[1] ELSE f[1] \o <<sep>> \o NativePath(Tail(f))

\* path.split(sep).join("/")
NormalizePathForPrompt(path) ==
    [i \in 1..Len(path) |-> IF path[i] = sep THEN Slash ELSE path[i]]

RelativePath(f) == NormalizePathForPrompt(NativePath(f))

\* The default comparison of Array.prototype.sort on strings: by code unit.
RECURSIVE LexLess(_, _)
LexLess(a, b) ==
    IF a = <<>> THEN b # <<>>
    ELSE IF b = <<>> THEN FALSE
    ELSE IF a[1] # b[1] THEN a[1] < b[1]
    ELSE LexLess(Tail(a), Tail(b))

\* files.sort() over the full paths of the listed files.
RECURSIVE SortFiles(_)
SortFiles(S) ==
    IF S = {} THEN <<>>
    ELSE LET m == CHOOSE x \in S :
                     \A y \in S \ {x} : LexLess(NativePath(x), NativePath(y))
         IN <<m>> \o SortFiles(S \ {m})

Reverse(q) == [i \in 1..Len(q) |-> q[Len(q) + 1 - i]]

\* Faulty variant of ListFilesRecursive: the listing is in descending order.
ListFilesRecursive_Descending == Reverse(SortFiles({f \in Files : disk[f] # Absent}))

\* listFilesRecursive(tempdir): every regular file below tempdir, sorted (the
\* order in which readdir reports the entries is lost in the final sort).
ListFilesRecursive == SortFiles({f \in Files : disk[f] # Absent})

\* raw.includes(0)
HasNul(raw) == \E i \in 1..Len(raw) : raw[i] = 0

\* raw.toString("utf-8"): an invalid byte becomes U+FFFD.
Decode(raw) == [i \in 1..Len(raw) |-> IF raw[i] >= 128 THEN 65533 ELSE raw[i]]

\* The null result of readUtf8Text.
Null == <<-2>>

\* Faulty variant of ReadUtf8Text: the null-byte test is missing.
ReadUtf8Text_NoNulTest(raw) == Decode(raw)

\* readUtf8Text
ReadUtf8Text(raw) == IF HasNul(raw) THEN Null ELSE Decode(raw)

\* createHash("sha256").update(content).digest("hex"): one digest per text.
HashContent(text) == <<"sha256", text>>

\* Map<string, string> as a set of <<key, value>> pairs, one per key.
Undefined == <<"undefined", <<>>>>
MapKeys(m) == {e[1] : e \in m}
MapGet(m, k) == IF k \in MapKeys(m) THEN (CHOOSE e \in m : e[1] = k)[2] ELSE Undefined
MapSet(m, k, v) == {e \in m : e[1] # k} \cup {<<k, v>>}

\* Faulty variant of IsChange: only paths missing from the baseline count.
IsChange_OnlyNewPaths(baseline, path, hash) == MapGet(baseline, path) = Undefined

\* baselineHashes.get(relativePath) !== contentHash
IsChange(baseline, path, hash) == MapGet(baseline, path) # hash

\* Faulty variant of RecordsHash: only changed files enter currentHashes.
RecordsHash_OnlyChanged(changed) == changed

\* currentHashes.set precedes the comparison: every text file is recorded.
RecordsHash(changed) == TRUE

FileWritten(path, content) == [path |-> path, content |-> content]

\* The loop of snapshotHashes over the listed files.
RECURSIVE SnapshotLoop(_, _)
SnapshotLoop(files, snapshot) ==
    IF files = <<>> THEN snapshot
    ELSE LET content == ReadUtf8Text(disk[Head(files)]) IN
         IF content = Null THEN SnapshotLoop(Tail(files), snapshot)
         ELSE SnapshotLoop(Tail(files),
                           MapSet(snapshot, RelativePath(Head(files)),
                                  HashContent(content)))

SnapshotHashes == SnapshotLoop(ListFilesRecursive, {})

\* The loop of collectChangedFiles over the listed files.
RECURSIVE CollectLoop(_, _, _)
CollectLoop(files, baseline, acc) ==
    IF files = <<>> THEN acc
    ELSE LET content == ReadUtf8Text(disk[Head(files)]) IN
         IF content = Null THEN CollectLoop(Tail(files), baseline, acc)
         ELSE LET relativePath == RelativePath(Head(files))
                  contentHash == HashContent(content)
                  changed == IsChange(baseline, relativePath, contentHash)
              IN CollectLoop(Tail(files), baseline,
                    [changedFiles |->
                        IF changed
                        THEN Append(acc.changedFiles, FileWritten(relativePath, content))
                        ELSE acc.changedFiles,
                     currentHashes |->
                        IF RecordsHash(changed)
                        THEN MapSet(acc.currentHashes, relativePath, contentHash)
                        ELSE acc.currentHashes])

CollectChangedFiles(baseline) ==
    CollectLoop(ListFilesRecursive, baseline,
                [changedFiles |-> <<>>, currentHashes |-> {}])

\* Record of a collectChangedFiles call: the baseline it was given, what it
\* returned, and whether it left the directory and the caller's baseline as
\* they were.
NoCall ==
    [ran |-> FALSE, baseline |-> {}, changedFiles |-> <<>>, currentHashes |-> {},
     intact |-> TRUE]
NoSnapshot == [ran |-> FALSE, hashes |-> {}]

\* An empty tempdir, an empty baseline, no call made.
IdleD ==
    /\ sep = Slash
    /\ disk = [f \in Files |-> Absent]
    /\ baselineHashes = {}
    /\ dlast = NoCall
    /\ dprev = NoCall
    /\ dsnap = NoSnapshot

\* Baselines: any earlier snapshot of a directory holding "x" or "y" files.
Baselines ==
    {{<<RelativePath(f), HashContent(h[f])>> : f \in D} :
        D \in SUBSET Files, h \in [Files -> {<<120>>, <<121>>}]}

\* Inputs of the detector: a platform, a directory state and a baseline.
InitInputs ==
    /\ sep \in Separators
    /\ disk \in [Files -> Contents \cup {Absent}]
    /\ baselineHashes \in Baselines
    /\ dlast = NoCall
    /\ dprev = NoCall
    /\ dsnap = NoSnapshot

\* The record of a call with the given baseline.  intact: what the call left
\* of the directory and of the caller's baseline.
CallRecord(baseline, intact) ==
    LET r == CollectChangedFiles(baseline) IN
    [ran |-> TRUE, baseline |-> baseline, changedFiles |-> r.changedFiles,
     currentHashes |-> r.currentHashes, intact |-> intact]

\* collectChangedFiles(tempdir, baselineHashes): the caller diffs against the
\* baseline it holds.
Diff ==
    /\ UNCHANGED <<sep, disk, baselineHashes>>
    /\ dlast' = CallRecord(baselineHashes,
                           disk' = disk /\ baselineHashes' = baselineHashes)
    /\ dprev' = dlast
    /\ UNCHANGED dsnap
    /\ UNCHANGED <<tvars, qvars, mvars>>

\* collectChangedFiles(tempdir, currentHashes): the caller diffs against the
\* snapshot the latest call returned.
Rediff ==
    /\ dlast.ran
    /\ UNCHANGED <<sep, disk, baselineHashes>>
    /\ dlast' = CallRecord(dlast.currentHashes,
                           disk' = disk /\ baselineHashes' = baselineHashes)
    /\ dprev' = dlast
    /\ UNCHANGED dsnap
    /\ UNCHANGED <<tvars, qvars, mvars>>

\* snapshotHashes(tempdir) is applied.
Snapshot ==
    /\ dsnap' = [ran |-> TRUE, hashes |-> SnapshotHashes]
    /\ UNCHANGED <<sep, disk, baselineHashes, dlast, dprev>>
    /\ UNCHANGED <<tvars, qvars, mvars>>

\* Something else (the agent's tools) writes or removes a file under tempdir.
DirectoryWrite ==
    /\ \E f \in Files, c \in Contents \cup {Absent} :
          /\ disk[f] # c
          /\ disk' = [disk EXCEPT ![f] = c]
    /\ dlast' = NoCall
    /\ dprev' = NoCall
    /\ dsnap' = NoSnapshot
    /\ UNCHANGED <<sep, baselineHashes>>
    /\ UNCHANGED <<tvars, qvars, mvars>>

NextD ==
    \/ Diff
    \/ Rediff
    \/ Snapshot
    \/ DirectoryWrite

----------------------------------------------------------------------------
(* Materialization session: ProgrammaticToolCallingSession,                *)
(* src/unnamed/part_008.  tempdir is the directory `disk`.                 *)

\* Lines appendLog may accumulate.
MaxLogLines == 1

\* The name "..", and an artifact filename that leaves tempdir: "../e".
DotDot == <<46, 46>>
FileOutside == <<DotDot, <<101>>>>

\* resolve(resolvedBase, relativePath), seen from tempdir: how many levels
\* above tempdir the target's nearest listed ancestor lies, and the names
\* from there down to the target.
RECURSIVE Resolve(_, _)
Resolve(names, acc) ==
    IF names = <<>> THEN acc
    ELSE IF Head(names) = DotDot
    THEN IF acc.names = <<>>
         THEN Resolve(Tail(names), [acc EXCEPT !.up = @ + 1])
         ELSE Resolve(Tail(names),
                      [acc EXCEPT !.names = SubSeq(@, 1, Len(@) - 1)])
    ELSE Resolve(Tail(names), [acc EXCEPT !.names = Append(@, Head(names))])

\* The Error resolveSafeTarget throws.
InvalidTarget == << <<-3>> >>

\* Faulty variant of ResolveSafeTarget: the prefix test is missing.
ResolveSafeTarget_Unchecked(relativePath) ==
    Resolve(relativePath, [up |-> 0, names |-> <<>>]).names

\* resolveSafeTarget(this.tempdir, relativePath): the target, as the names
\* from tempdir down to it, or the Error for a target outside tempdir.
ResolveSafeTarget(relativePath) ==
    LET target == Resolve(relativePath, [up |-> 0, names |-> <<>>]) IN
    IF target.up # 0 THEN InvalidTarget ELSE target.names

\* A SearchMatch, and the match lists the search request may return: none,
\* one, two, and two of which the first or the second leaves tempdir.
SearchMatch(filename, source) ==
    [filename |-> filename, codeBlock |-> [source |-> source]]
MatchDot == SearchMatch(FileDot, <<120>>)
MatchNested == SearchMatch(FileNested, <<121>>)
MatchOutside == SearchMatch(FileOutside, <<120>>)
SearchResults ==
    {<<>>, <<MatchDot>>, <<MatchDot, MatchNested>>,
     <<MatchOutside, MatchDot>>, <<MatchDot, MatchOutside>>}

\* toCodeFiles
ToCodeFiles(matches) ==
    [i \in 1..Len(matches) |->
        CodeFile(matches[i].filename, matches[i].codeBlock.source)]

\* The bytes writeFile(target, source, "utf-8") stores: the sources are
\* ASCII, one byte per code unit.
Utf8Bytes(source) == [i \in 1..Len(source) |-> source[i] % 128]

\* The loop of prepareTurn over this.files, from file k on: each file is
\* validated and then written, in list order; the write of file failAt
\* throws (0: none does).
RECURSIVE MaterializeLoop(_, _, _, _)
MaterializeLoop(files, k, failAt, acc) ==
    IF k > Len(files) THEN acc
    ELSE LET target == ResolveSafeTarget(files[k].filename) IN
         IF target = InvalidTarget \/ target \notin Files \/ k = failAt
         THEN [acc EXCEPT !.threw = TRUE]
         ELSE MaterializeLoop(files, k + 1, failAt,
                 [acc EXCEPT !.dir[target] = Utf8Bytes(files[k].source),
                             !.wrote = @ \cup {target}])

\* Faulty variant of FormatContextPrompt: only the first file gets a heading.
FormatContextPrompt_FirstOnly(files) ==
    IF Len(files) = 0 THEN <<>> ELSE <<files[1].filename>>

\* formatContextPrompt: the empty string for no file, else a text with one
\* heading per file; the text is kept as the filenames its headings name.
FormatContextPrompt(files) ==
    IF Len(files) = 0 THEN <<>>
    ELSE [i \in 1..Len(files) |-> files[i].filename]

\* Faulty variant of NeedsBaseline: every later turn takes a new snapshot.
NeedsBaseline_Always == TRUE

\* else if (!this.prepared)
NeedsBaseline == ~prepared

\* Faulty variant of NothingChanged: never true, every call uploads.
NothingChanged_Never(changedFiles) == FALSE

\* changedFiles.length === 0
NothingChanged(changedFiles) == Len(changedFiles) = 0

\* Faulty variant of BaselineAfterUpload: the baseline is not replaced.
BaselineAfterUpload_Stale(baseline, currentHashes) == baseline

\* this.baselineHashes = currentHashes, after the upload resolved.
BaselineAfterUpload(baseline, currentHashes) == currentHashes

\* Faulty variant of LogsAfterFailedUpload: the logs are cleared before the
\* upload request is awaited.
LogsAfterFailedUpload_Cleared(logs) == 0

\* A rejected upload leaves this.executionLogs alone: the assignments come
\* after the await.
LogsAfterFailedUpload(logs) == logs

\* Files and contents the agent's own tools write under tempdir.
AgentFiles == {FileDot, FileUpper}
AgentContents == {<<121>>}

\* The record of a call that ended.  first: firstMessage; hadBaseline:
\* this.prepared when the call began; fresh: mfresh when the call began;
\* requests: network requests it sent; changed: the change-set
\* uploadChangedCode found; wrote: the artifacts prepareTurn wrote; kept: what
\* the call left as it was; intact: nothing else wrote to tempdir while the
\* call was under way; again: for an uploadChangedCode that directly follows
\* a rejected one with no write since, whether it found the same change-set.
Op(op, first, hadBaseline, outcome, requests, changed, wrote, kept, locals) ==
    [op |-> op, first |-> first, hadBaseline |-> hadBaseline, outcome |-> outcome,
     requests |-> requests, changed |-> changed, wrote |-> wrote, kept |-> kept,
     fresh |-> locals.fresh, intact |-> ~locals.touched, again |-> locals.again]
Kept(baseline, logs, files, prompt) ==
    [baseline |-> baseline, logs |-> logs, files |-> files, prompt |-> prompt]

\* Locals of a call: the values uploadChangedCode holds across its await,
\* what was observed when the call began, and what prepareTurn did before
\* its snapshot; owed: the agent's unsent writes still on disk when
\* uploadChangedCode read the directory.
Locals(currentHashes, changedFiles, fresh, again) ==
    [currentHashes |-> currentHashes, changedFiles |-> changedFiles,
     fresh |-> fresh, again |-> again, touched |-> FALSE, wrote |-> {},
     keptFiles |-> TRUE, keptPrompt |-> TRUE, owed |-> {}]
NoLocals == Locals({}, <<>>, FALSE, "none")

NoOp == Op("none", FALSE, FALSE, "none", 0, <<>>, {}, Kept(TRUE, TRUE, TRUE, TRUE),
           NoLocals)

\* Whether a call that finds changedFiles repeats the change-set of the
\* rejected uploadChangedCode it directly follows.
Again(changedFiles) ==
    IF mlast.op = "upload" /\ mlast.outcome = "error" /\ mlast.intact
    THEN (IF changedFiles = mlast.changed THEN "same" ELSE "differs")
    ELSE "none"

\* The agent's work: whether a baseline has been recorded, and the writes
\* <<file, content>> the agent made since then that changed the file against
\* the baseline of that moment and were not sent in an upload since.
NoWork == [recorded |-> FALSE, unsent |-> {}]

\* The writes whose file still holds the written content.
StillOnDisk(unsent) == {e \in unsent : disk[e[1]] = e[2]}

\* The writes left after an upload of changedFiles was accepted.
NotSent(unsent, changedFiles) ==
    {e \in unsent :
        \A i \in 1..Len(changedFiles) :
            changedFiles[i] # FileWritten(RelativePath(e[1]), ReadUtf8Text(e[2]))}

\* The writes after the agent wrote content c to file f (Absent: removed it).
AfterWrite(unsent, f, c) ==
    LET others == {e \in unsent : e[1] # f} IN
    IF c # Absent /\ mwork.recorded
       /\ MapGet(baselineHashes, RelativePath(f)) # HashContent(ReadUtf8Text(c))
    THEN others \cup {<<f, c>>}
    ELSE others

\* The session after its constructor.
IdleM ==
    /\ prepared = FALSE
    /\ ptcFiles = <<>>
    /\ contextPrompt = <<>>
    /\ ptcLogs = 0
    /\ mpc = "idle"
    /\ mlocal = NoLocals
    /\ mlast = NoOp
    /\ mfresh = FALSE
    /\ mwork = NoWork

\* appendLog(logLine): blank lines are dropped.
AppendLog ==
    /\ ptcLogs < MaxLogLines
    /\ \E blank \in BOOLEAN :
          ptcLogs' = IF blank THEN ptcLogs ELSE ptcLogs + 1
    /\ UNCHANGED <<prepared, ptcFiles, contextPrompt, mpc, mlocal, mlast, mfresh>>
    /\ UNCHANGED <<sep, disk, baselineHashes, dlast, dprev, dsnap>>
    /\ UNCHANGED <<mwork, tvars, qvars>>

\* prepareTurn(task) with firstMessage true or defaulted, up to the await of
\* the search request.
PrepareFirstTurn ==
    /\ mpc = "idle"
    /\ mpc' = "searching"
    /\ mlocal' = Locals({}, <<>>, mfresh, "none")
    /\ UNCHANGED <<prepared, ptcFiles, contextPrompt, ptcLogs, mlast, mfresh>>
    /\ UNCHANGED <<sep, disk, baselineHashes, dlast, dprev, dsnap>>
    /\ UNCHANGED <<mwork, tvars, qvars>>

\* The search request resolves: the artifacts are validated and written one
\* by one and the prompt fragment is recorded, up to the await of the
\* snapshot; a rejected filename or a failed write ends the call.
SearchReturns ==
    /\ mpc = "searching"
    /\ \E matches \in SearchResults : \E failAt \in 0..Len(matches) :
          LET files == ToCodeFiles(matches)
              r == MaterializeLoop(files, 1, failAt,
                                   [dir |-> disk, wrote |-> {}, threw |-> FALSE])
          IN
          /\ ptcFiles' = files
          /\ disk' = r.dir
          /\ IF r.threw
             THEN /\ UNCHANGED contextPrompt
                  /\ mfresh' = (mfresh /\ r.dir = disk)
                  /\ mlast' = Op("prepare", TRUE, prepared, "error", 1, <<>>, r.wrote,
                                 Kept(TRUE, TRUE, ptcFiles' = ptcFiles, TRUE), mlocal)
                  /\ mpc' = "idle"
                  /\ mlocal' = NoLocals
             ELSE /\ contextPrompt' = FormatContextPrompt(files)
                  /\ mpc' = "snapshotting"
                  /\ mlocal' = [mlocal EXCEPT
                                   !.wrote = r.wrote,
                                   !.keptFiles = (ptcFiles' = ptcFiles),
                                   !.keptPrompt = (contextPrompt' = contextPrompt)]
                  /\ mlast' = NoOp
                  /\ mfresh' = (mfresh /\ r.dir = disk)
    /\ UNCHANGED <<prepared, ptcLogs>>
    /\ UNCHANGED <<sep, baselineHashes, dlast, dprev, dsnap>>
    /\ UNCHANGED <<mwork, tvars, qvars>>

\* snapshotHashes resolves in prepareTurn: the baseline is recorded and the
\* context is returned.
PrepareSnapshot ==
    /\ mpc = "snapshotting"
    /\ baselineHashes' = SnapshotHashes
    /\ prepared' = TRUE
    /\ mfresh' = TRUE
    /\ mlast' = Op("prepare", TRUE, prepared, "context", 1, <<>>, mlocal.wrote,
                   Kept(baselineHashes' = baselineHashes, TRUE, mlocal.keptFiles,
                        mlocal.keptPrompt),
                   mlocal)
    /\ mpc' = "idle"
    /\ mlocal' = NoLocals
    /\ mwork' = [mwork EXCEPT !.recorded = TRUE]
    /\ UNCHANGED <<ptcFiles, contextPrompt, ptcLogs>>
    /\ UNCHANGED <<sep, disk, dlast, dprev, dsnap>>
    /\ UNCHANGED <<tvars, qvars>>

\* The search request rejects: prepareTurn rejects with its error.
SearchFails ==
    /\ mpc = "searching"
    /\ mlast' = Op("prepare", TRUE, prepared, "error", 1, <<>>, {},
                   Kept(TRUE, TRUE, TRUE, TRUE), mlocal)
    /\ mpc' = "idle"
    /\ mlocal' = NoLocals
    /\ UNCHANGED <<prepared, ptcFiles, contextPrompt, ptcLogs, mfresh>>
    /\ UNCHANGED <<sep, disk, baselineHashes, dlast, dprev, dsnap>>
    /\ UNCHANGED <<mwork, tvars, qvars>>

\* prepareTurn(task, {firstMessage: false}).
PrepareLaterTurn ==
    /\ mpc = "idle"
    /\ IF NeedsBaseline
       THEN /\ baselineHashes' = SnapshotHashes /\ prepared' = TRUE /\ mfresh' = TRUE
            /\ mwork' = [mwork EXCEPT !.recorded = TRUE]
       ELSE UNCHANGED <<baselineHashes, prepared, mfresh, mwork>>
    /\ mlast' = Op("prepare", FALSE, prepared, "context", 0, <<>>, {},
                   Kept(baselineHashes' = baselineHashes, TRUE, TRUE, TRUE),
                   Locals({}, <<>>, mfresh, "none"))
    /\ UNCHANGED <<ptcFiles, contextPrompt, ptcLogs, mpc, mlocal>>
    /\ UNCHANGED <<sep, disk, dlast, dprev, dsnap>>
    /\ UNCHANGED <<tvars, qvars>>

\* uploadChangedCode(task) up to its return of null or to the await of the
\* upload request.
UploadChangedCode ==
    /\ mpc = "idle"
    /\ LET r == CollectChangedFiles(baselineHashes)
           locals == [Locals(r.currentHashes, r.changedFiles, mfresh,
                             Again(r.changedFiles))
                         EXCEPT !.owed = StillOnDisk(mwork.unsent)]
       IN
       IF NothingChanged(r.changedFiles)
       THEN /\ baselineHashes' = r.currentHashes
            /\ mfresh' = TRUE
            /\ mwork' = [mwork EXCEPT !.recorded = TRUE]
            /\ mlast' = Op("upload", FALSE, prepared, "null", 0, r.changedFiles, {},
                           Kept(baselineHashes' = baselineHashes, TRUE, TRUE, TRUE),
                           locals)
            /\ UNCHANGED <<mpc, mlocal>>
       ELSE /\ mpc' = "uploading"
            /\ mlocal' = locals
            /\ UNCHANGED <<baselineHashes, mlast, mfresh, mwork>>
    /\ UNCHANGED <<prepared, ptcFiles, contextPrompt, ptcLogs>>
    /\ UNCHANGED <<sep, disk, dlast, dprev, dsnap>>
    /\ UNCHANGED <<tvars, qvars>>

\* The upload request resolves: the baseline is replaced by the hashes read
\* before the request, the logs are cleared, the response is returned.
UploadReturns ==
    /\ mpc = "uploading"
    /\ baselineHashes' = BaselineAfterUpload(baselineHashes, mlocal.currentHashes)
    /\ ptcLogs' = 0
    /\ mfresh' = ~mlocal.touched
    /\ mlast' = Op("upload", FALSE, prepared, "response", 1, mlocal.changedFiles, {},
                   Kept(baselineHashes' = baselineHashes, ptcLogs' = ptcLogs, TRUE, TRUE),
                   mlocal)
    /\ mpc' = "idle"
    /\ mlocal' = NoLocals
    /\ mwork' = [recorded |-> TRUE, unsent |-> NotSent(mwork.unsent, mlocal.changedFiles)]
    /\ UNCHANGED <<prepared, ptcFiles, contextPrompt>>
    /\ UNCHANGED <<sep, disk, dlast, dprev, dsnap>>
    /\ UNCHANGED <<tvars, qvars>>

\* The upload request rejects: uploadChangedCode rejects with its error.
UploadFails ==
    /\ mpc = "uploading"
    /\ ptcLogs' = LogsAfterFailedUpload(ptcLogs)
    /\ mlast' = Op("upload", FALSE, prepared, "error", 1, mlocal.changedFiles, {},
                   Kept(TRUE, ptcLogs' = ptcLogs, TRUE, TRUE), mlocal)
    /\ mpc' = "idle"
    /\ mlocal' = NoLocals
    /\ UNCHANGED <<prepared, ptcFiles, contextPrompt, mfresh>>
    /\ UNCHANGED <<sep, disk, baselineHashes, dlast, dprev, dsnap>>
    /\ UNCHANGED <<mwork, tvars, qvars>>

\* The agent's own tools write or remove a file under tempdir.
AgentWrite ==
    /\ \E f \in AgentFiles, c \in AgentContents \cup {Absent} :
          /\ disk[f] # c
          /\ disk' = [disk EXCEPT ![f] = c]
          /\ mwork' = [mwork EXCEPT !.unsent = AfterWrite(@, f, c)]
    /\ mlast' = NoOp
    /\ mfresh' = FALSE
    /\ mlocal' = [mlocal EXCEPT !.touched = TRUE]
    /\ UNCHANGED <<prepared, ptcFiles, contextPrompt, ptcLogs, mpc>>
    /\ UNCHANGED <<sep, baselineHashes, dlast, dprev, dsnap>>
    /\ UNCHANGED <<tvars, qvars>>

NextM ==
    \/ AppendLog
    \/ PrepareFirstTurn
    \/ SearchReturns
    \/ PrepareSnapshot
    \/ SearchFails
    \/ PrepareLaterTurn
    \/ UploadChangedCode
    \/ UploadReturns
    \/ UploadFails
    \/ AgentWrite

----------------------------------------------------------------------------
(* Client upload: RaySurfer.upload, src/src/client.ts                      *)

\* Largest number of files one upload() call is given.
MaxUploadFiles == 3

\* Values of an optional boolean option.
OptionalFlags == {"undefined", "true", "false"}

\* filesWritten when the option is absent, cachedCodeBlocks when it is absent.
NoList == <<-1>>
NoBlocks == <<"undefined">>

\* Files are numbered; fileWritten = 0 stands for an absent option.
NoFile == 0

\* filesWritten: absent, the files 1..k in ascending order, or in descending order.
FileLists ==
    {NoList} \cup {[i \in 1..k |-> i] : k \in 0..MaxUploadFiles}
             \cup {[i \in 1..k |-> k + 1 - i] : k \in 2..MaxUploadFiles}

\* cachedCodeBlocks: absent, empty, or the ids of retrieved code blocks.
FeedbackLists == {NoBlocks, <<>>, <<"b1">>, <<"b1", "b2">>}

UploadOptions(fileWritten, filesWritten, cachedCodeBlocks, autoVote, useVoting) ==
    [fileWritten |-> fileWritten, filesWritten |-> filesWritten,
     cachedCodeBlocks |-> cachedCodeBlocks, autoVote |-> autoVote,
     useRaysurferAiVoting |-> useVoting]

NoOptions == UploadOptions(NoFile, NoList, NoBlocks, "undefined", "undefined")

\* opts.fileWritten && opts.filesWritten (an empty array is truthy)
BothGiven(opts) == opts.fileWritten # NoFile /\ opts.filesWritten # NoList

\* opts.autoVote ?? opts.useRaysurferAiVoting ?? true
EffectiveVoting(opts) ==
    IF opts.autoVote # "undefined" THEN opts.autoVote
    ELSE IF opts.useRaysurferAiVoting # "undefined" THEN opts.useRaysurferAiVoting
    ELSE "true"

\* normalizedFiles
NormalizedFiles(opts) ==
    IF opts.fileWritten # NoFile THEN <<opts.fileWritten>>
    ELSE IF opts.filesWritten # NoList THEN opts.filesWritten
    ELSE <<>>

\* Options of the nested upload() of one file on the compatibility path:
\* {...opts, fileWritten, filesWritten: undefined, useRaysurferAiVoting, autoVote: undefined}
CompatOptions(opts, file) ==
    [opts EXCEPT !.fileWritten = file, !.filesWritten = NoList,
                 !.useRaysurferAiVoting = EffectiveVoting(opts),
                 !.autoVote = "undefined"]

\* The body of the request of an upload() of one file.
UploadData(opts) ==
    [file_written |-> NormalizedFiles(opts)[1],
     cached_code_blocks |->
        IF opts.cachedCodeBlocks # NoBlocks /\ Len(opts.cachedCodeBlocks) > 0
        THEN opts.cachedCodeBlocks ELSE NoBlocks,
     use_raysurfer_ai_voting |-> EffectiveVoting(opts)]

\* The body of the k-th request of the call with options opts.
UploadRequest(opts, k) ==
    IF Len(NormalizedFiles(opts)) > 1
    THEN UploadData(CompatOptions(opts, NormalizedFiles(opts)[k]))
    ELSE UploadData(opts)

IdleU ==
    /\ upc = "idle"
    /\ uopts = NoOptions
    /\ uidx = 0
    /\ usent = <<>>
    /\ uresult = "none"

\* upload(opts) is called: the options are checked, and the request of the
\* only file, or of the first file on the compatibility path, is sent.
UploadCalled ==
    /\ upc = "idle"
    /\ \E fileWritten \in {NoFile, 1}, filesWritten \in FileLists,
          cachedCodeBlocks \in FeedbackLists,
          autoVote \in OptionalFlags, useVoting \in OptionalFlags :
          LET opts == UploadOptions(fileWritten, filesWritten, cachedCodeBlocks,
                                    autoVote, useVoting)
          IN
          /\ uopts' = opts
          /\ IF BothGiven(opts) \/ Len(NormalizedFiles(opts)) = 0
             THEN /\ upc' = "done"
                  /\ uresult' = "usageError"
                  /\ UNCHANGED usent
             ELSE /\ upc' = "requesting"
                  /\ usent' = <<UploadRequest(opts, 1)>>
                  /\ UNCHANGED uresult
    /\ UNCHANGED uidx
    /\ UNCHANGED <<tpc, attempt, timers, tlog, tdelays, lastError, tresult, tmessage>>
    /\ UNCHANGED <<qvars, dvars>>

\* The pending request resolves: the next file's request is sent, or the
\* call returns the response (the aggregate on the compatibility path).
UploadRequestReturns ==
    /\ upc = "requesting"
    /\ uidx' = uidx + 1
    /\ IF uidx + 1 < Len(NormalizedFiles(uopts))
       THEN /\ usent' = Append(usent, UploadRequest(uopts, uidx + 2))
            /\ UNCHANGED <<upc, uresult>>
       ELSE /\ upc' = "done"
            /\ uresult' = IF Len(NormalizedFiles(uopts)) > 1 THEN "aggregate"
                          ELSE "response"
            /\ UNCHANGED usent
    /\ UNCHANGED uopts
    /\ UNCHANGED <<tpc, attempt, timers, tlog, tdelays, lastError, tresult, tmessage>>
    /\ UNCHANGED <<qvars, dvars>>

\* The pending request rejects: upload() rejects with its error, no further
\* file is sent.
UploadRequestFails ==
    /\ upc = "requesting"
    /\ upc' = "done"
    /\ uresult' = "error"
    /\ UNCHANGED <<uopts, uidx, usent>>
    /\ UNCHANGED <<tpc, attempt, timers, tlog, tdelays, lastError, tresult, tmessage>>
    /\ UNCHANGED <<qvars, dvars>>

NextU ==
    \/ UploadCalled
    \/ UploadRequestReturns
    \/ UploadRequestFails

----------------------------------------------------------------------------
(* Specifications                                                          *)

InitSession == InitQ /\ IdleT /\ IdleD /\ IdleM /\ IdleU

SpecQ == InitSession /\ [][NextQ]_vars

InitT == IdleT /\ IdleQ /\ IdleD /\ IdleM /\ IdleU

SpecT == InitT /\ [][NextT]_vars

\* A call that was made runs on: the event loop settles a pending fetch (with
\* a response, a connection failure, or the abort of the deadline timer) and
\* ends a backoff wait.
SpecTLive == InitT /\ [][NextT]_vars /\ WF_vars(NextT)

InitD == InitInputs /\ IdleT /\ IdleQ /\ IdleM /\ IdleU

SpecD == InitD /\ [][NextD]_vars

InitM == IdleM /\ IdleT /\ IdleQ /\ IdleD /\ IdleU

InitU == IdleU /\ IdleT /\ IdleQ /\ IdleD /\ IdleM

SpecU == InitU /\ [][NextU]_vars

SpecM == InitM /\ [][NextM]_vars

----------------------------------------------------------------------------
(* Transport claims                                                        *)

ServerErrorStatuses == {500, 502, 503, 504}

AllAttemptsServerError ==
    \A i \in 1..Len(tlog) :
        tlog[i].kind = "status" /\ tlog[i].status \in ServerErrorStatuses

\* C4: if every attempt of a request returned 500/502/503/504, the call ends
\* only after exactly MAX_RETRIES + 1 = 4 attempts, and it ends by throwing
\* CacheUnavailableError carrying the status of the last response.
C4_ServerErrorsExhaustRetries ==
    (tpc = "done" /\ AllAttemptsServerError) =>
        /\ Len(tlog) = MAX_RETRIES + 1
        /\ tresult = Thrown("CacheUnavailableError", <<tlog[Len(tlog)].status>>, <<>>)

C4_Witness ==
    /\ tpc = "done"
    /\ Len(tlog) = 4
    /\ \A i \in 1..4 : tlog[i].kind = "status" /\ tlog[i].status = 503
    /\ tresult.name = "CacheUnavailableError"

\* C5: an attempt that returned 401 is the last attempt of the call, and the
\* call has failed with AuthenticationError, whatever the attempt number.
C5_AuthFailureIsFatal ==
    \A i \in 1..Len(tlog) :
        (tlog[i].kind = "status" /\ tlog[i].status = 401) =>
            /\ i = Len(tlog)
            /\ tpc = "done"
            /\ tresult = Thrown("AuthenticationError", <<>>, <<>>)

C5_Witness ==
    /\ Len(tlog) = 2
    /\ tlog[1].status = 503
    /\ tlog[2].status = 401
    /\ tresult.type = "error"

----------------------------------------------------------------------------
(* Stream session claims                                                   *)

\* C1: the body of _uploadCache (past its guard) runs at most once per
\* session, under every interleaving of next(), return(), throw(), close()
\* and control calls.
C1_FinalizationAtMostOnce == stats.finalizeRuns <= 1

\* Both trigger paths were taken (a next() returned done and a return() on
\* the opened session is over) and the body ran once.
C1_Witness ==
    /\ stats.exhausted
    /\ stats.returned
    /\ stats.finalizeRuns = 1

\* C2: on an opened session, once a next() has returned done or a return()
\* is over, the body of _uploadCache has run exactly once, however many
\* further next() or return() calls follow.
C2_FinalizedOnceAfterEnd ==
    (stats.exhausted \/ stats.returned) => stats.finalizeRuns = 1

\* return() ran the body, a later next() reported done, nothing is pending.
C2_Witness ==
    /\ stats.finOutcome.kind = "return"
    /\ stats.exhausted
    /\ AllDone
    /\ stats.finalizeRuns = 1

\* C3: an upload or vote request is only ever issued by a session with
\* caching enabled whose success flag is set, and the flag is only set after
\* the wrapped stream yielded a result/success message.
C3_UploadOnlyAfterSuccess ==
    /\ netLog # <<>> => (cacheEnabled /\ taskSucceeded)
    /\ taskSucceeded => stats.successEmitted

\* Finalization ran with a produced file tracked and lookups enabled, the
\* stream never reported success, and nothing was uploaded.
C3_Witness ==
    /\ stats.finalizeRuns = 1
    /\ ~stats.successEmitted
    /\ cacheEnabled /\ raysurfer /\ hasPromptText
    /\ ReadCandidates # {}
    /\ generatedCodeBlocks # <<>>
    /\ stats.exhausted
    /\ netLog = <<>>

\* C6: _initialize is invoked at most once per session, so at most one
\* retrieval request is sent and the wrapped stream is opened at most once,
\* also after _initialize was rejected.
C6_InitializationAtMostOnce ==
    /\ stats.initRuns <= 1
    /\ stats.retrievals <= 1
    /\ stats.opens <= 1

\* Two calls wait for the same pending initialization.
C6_Witness ==
    /\ initPc = "retrieving"
    /\ \E i, j \in 1..Len(calls) :
          i # j /\ calls[i].pc = "awaitInit" /\ calls[j].pc = "awaitInit"
    /\ stats.retrievals = 1

\* C7: a failed retrieval request or a failed write of a retrieved artifact
\* never rejects _initialize: unless the SDK itself fails to load, the
\* wrapped stream is opened and the first next() to end returns the wrapped
\* stream's first result.
C7_InitFailureSwallowed ==
    (stats.retrievalFailed \/ stats.writeFailed) =>
        /\ initPromise = "rejected" => stats.sdkFailed
        /\ initPc \in {"importing", "done"} \/ stats.sdkFailed
        /\ initPc = "done" => (inner = "query" /\ stats.opens = 1)
        /\ (stats.firstNext # RNone /\ ~stats.sdkFailed) =>
               stats.firstNext = stats.innerFirst

C7_Witness ==
    /\ stats.retrievalFailed
    /\ stats.firstNext.t = "yield"
    /\ stats.firstNext = stats.innerFirst

\* C8: the call that ran the body of _uploadCache returns what the wrapped
\* stream gave it (done for next(), the wrapped return result for return()),
\* whether the upload or vote requests succeeded or failed.
C8_UploadFailureSwallowed ==
    /\ stats.finOutcome.kind = "next" => stats.finOutcome.result = RDone
    /\ stats.finOutcome.kind = "return" => stats.finOutcome.result = RInnerReturn
    /\ stats.lastNext.by # "upload"

\* An upload failed and the next() that ran it returned done.
C8_Witness ==
    /\ stats.uploadFailed
    /\ stats.finOutcome.kind = "next"
    /\ stats.finOutcome.result = RDone
    /\ \E i \in 1..Len(netLog) : netLog[i].kind = "upload"

\* A next() has the wrapped stream's result and waits for _uploadCache.
NextHoldsResult ==
    \E i \in 1..Len(calls) : calls[i].kind = "next" /\ calls[i].pc = "finalizing"

\* C9: every next() that reaches the wrapped stream returns exactly the
\* result the wrapped stream gave it (message, position and done flag): the
\* latest result returned is the latest result produced, unless a next()
\* still holds it while _uploadCache runs; and when no call is pending as
\* many next() calls have returned a result as the wrapped stream produced.
C9_TransparentIteration ==
    /\ (stats.lastNext # RNone /\ stats.lastNext.by # "init" /\ ~NextHoldsResult) =>
           stats.lastNext = innerLast
    /\ AllDone => stats.nextResults = stats.innerCount

\* Two messages and then done, one next() each.
C9_Witness ==
    /\ stats.nextResults = 3
    /\ innerPos = 2
    /\ stats.lastNext = RDone
    /\ AllDone

\* C10 (as claimed): when an opened session ends by throw(), by close() or
\* by a rejecting next() of the wrapped stream, the body of _uploadCache has
\* run exactly once.
C10_FinalizedOnCancellation ==
    (stats.cancelled \/ stats.streamRaised) => stats.finalizeRuns = 1

\* C11: a session without an API key is a passthrough: it never sends a
\* retrieval, upload or vote request, writes nothing to the scratch
\* directory, and opens the wrapped stream with an empty prompt addition (the
\* caller's system prompt as it is).
C11_DisabledIsPassthrough ==
    ~cacheEnabled =>
        /\ stats.retrievals = 0
        /\ ~raysurfer
        /\ netLog = <<>>
        /\ initWrites = {}
        /\ sdkPrompt = <<>>

\* Without a key, a string prompt ran to a successful end with a produced
\* file tracked, and finalization ran.
C11_Witness ==
    /\ ~cacheEnabled
    /\ hasPromptText
    /\ inner = "query"
    /\ taskSucceeded
    /\ ReadCandidates # {}
    /\ stats.finalizeRuns = 1
    /\ stats.exhausted

----------------------------------------------------------------------------
(* Transport claims, continued                                             *)

\* C12 (as claimed): an attempt aborted by its deadline timer is the last
\* attempt of the call, and the call has failed with the Timeout error.
C12_DeadlineAbortIsTimeout ==
    \A i \in 1..Len(tlog) :
        tlog[i].kind = "abort" =>
            /\ i = Len(tlog)
            /\ tpc = "done"
            /\ tresult.type = "error"
            /\ tresult.name = "TimeoutError"

\* C13: a 429 on one of the first MAX_RETRIES attempts does not end the call:
\* the call waits the delay of the Retry-After header (seconds), or
\* RETRY_BASE_DELAY * 2^n without one, and tries again.  A 429 on the last
\* attempt ends it with RateLimitError carrying the Retry-After value of that
\* response, or no value when the response had no such header.
C13_RateLimitRetriedThenSurfaced ==
    \A i \in 1..Len(tlog) :
        (tlog[i].kind = "status" /\ tlog[i].status = 429) =>
            IF i <= MAX_RETRIES
            THEN /\ ~(tpc = "done" /\ Len(tlog) = i)
                 /\ Len(tdelays) >= i
                 /\ tdelays[i] = IF tlog[i].hdr # <<>> THEN tlog[i].hdr[1] * 1000
                                 ELSE RETRY_BASE_DELAY * 2^(i - 1)
            ELSE /\ tpc = "done"
                 /\ Len(tlog) = MAX_RETRIES + 1
                 /\ tresult = Thrown("RateLimitError", <<>>, tlog[i].hdr)

\* Four 429 responses, the first without a Retry-After header, the last with
\* "2": the call failed with the hint 2.
C13_Witness ==
    /\ tpc = "done"
    /\ Len(tlog) = 4
    /\ \A i \in 1..4 : tlog[i].kind = "status" /\ tlog[i].status = 429
    /\ tlog[1].hdr = <<>>
    /\ tlog[4].hdr = <<2>>
    /\ tresult.name = "RateLimitError"
    /\ tresult.retryAfter = <<2>>

\* C14: a connection-level failure and a 500/502/503/504 response on one of
\* the first MAX_RETRIES attempts are both followed by a wait of
\* RETRY_BASE_DELAY * 2^n and another attempt; a connection-level failure of
\* the last attempt ends the call, after exactly MAX_RETRIES + 1 attempts.
C14_ConnectionFailuresRetried ==
    \A i \in 1..Len(tlog) :
        (tlog[i].kind = "network" \/ tlog[i].status \in ServerErrorStatuses) =>
            IF i <= MAX_RETRIES
            THEN /\ ~(tpc = "done" /\ Len(tlog) = i)
                 /\ Len(tdelays) >= i
                 /\ tdelays[i] = RETRY_BASE_DELAY * 2^(i - 1)
            ELSE /\ tpc = "done"
                 /\ Len(tlog) = MAX_RETRIES + 1
                 /\ tresult.type = "error"

\* Every attempt failed at connection level.
C14_Witness ==
    /\ tpc = "done"
    /\ Len(tlog) = 4
    /\ \A i \in 1..4 : tlog[i].kind = "network"
    /\ tdelays = <<500, 1000, 2000>>
    /\ tresult.type = "error"

\* C15: a response whose status is neither 2xx nor 401 nor a retryable one is
\* the last attempt of the call, and the call has failed with APIError
\* carrying that status and the body of that response.
C15_OtherStatusIsApiError ==
    \A i \in 1..Len(tlog) :
        (/\ tlog[i].kind = "status"
         /\ ~(tlog[i].status >= 200 /\ tlog[i].status <= 299)
         /\ tlog[i].status \notin {401, 429, 500, 502, 503, 504}) =>
            /\ i = Len(tlog)
            /\ tpc = "done"
            /\ tresult = Thrown("APIError", <<tlog[i].status>>, <<>>)
            /\ tmessage = tlog[i].body

\* A 404 with body "body2" on the second attempt, after a retried 503.
C15_Witness ==
    /\ Len(tlog) = 2
    /\ tlog[1].status = 503
    /\ tlog[2].status = 404
    /\ tlog[2].body = "body2"
    /\ tresult.name = "APIError"
    /\ tmessage = "body2"

\* C16: at most one deadline timer is armed at any time and it is the one of
\* the current attempt; it is armed when the attempt's fetch is issued; no
\* timer is armed before the call or once the call is over.
C16_NoTimerLeak ==
    /\ Cardinality(timers) <= 1
    /\ timers \subseteq {attempt}
    /\ tpc = "fetch" => attempt \in timers
    /\ tpc \in {"idle", "done"} => timers = {}

\* The call is over after four attempts, one of which was retried after its
\* backoff wait with the timer still armed.
C16_Witness ==
    /\ tpc = "done"
    /\ Len(tlog) = 4
    /\ tresult.type = "error"
    /\ timers = {}

----------------------------------------------------------------------------
(* Change detector claims                                                  *)

\* The paths a call listed as changed.
ReportedPaths(call) == {call.changedFiles[i].path : i \in 1..Len(call.changedFiles)}

\* C17: after collectChangedFiles, a text file on disk is listed (once, with
\* its text) exactly when the baseline has no entry for its path or an entry
\* with another hash than that of its text; a file that is absent from disk
\* is not listed, whatever the baseline holds for it, and nothing else is.
C17_ChangeIffNewOrDifferent ==
    dlast.ran =>
        /\ \A f \in Files :
              LET path == RelativePath(f) IN
              IF disk[f] = Absent \/ HasNul(disk[f])
              THEN path \notin ReportedPaths(dlast)
              ELSE (FileWritten(path, Decode(disk[f])) \in
                        {dlast.changedFiles[i] : i \in 1..Len(dlast.changedFiles)})
                   <=> (\/ path \notin MapKeys(dlast.baseline)
                        \/ MapGet(dlast.baseline, path) # HashContent(Decode(disk[f])))
        /\ ReportedPaths(dlast) \subseteq {RelativePath(f) : f \in Files}
        /\ Cardinality(ReportedPaths(dlast)) = Len(dlast.changedFiles)

\* One file is as in the baseline, one has other content than in the
\* baseline, one is in the baseline but gone: only the second is listed.
C17_Witness ==
    /\ dlast.ran
    /\ dlast.baseline = {<<RelativePath(f), HashContent(<<120>>)>> : f \in Files}
    /\ disk[FileDot] = <<120>>
    /\ disk[FileUpper] = <<121>>
    /\ disk[FileNested] = Absent
    /\ dlast.changedFiles = <<FileWritten(RelativePath(FileUpper), <<121>>)>>

\* C18: a file holding a null byte is in no change-set and in no snapshot
\* (neither the currentHashes of collectChangedFiles nor the result of
\* snapshotHashes), whatever the baseline holds for its path.
C18_BinaryNeverListed ==
    \A f \in Files :
        HasNul(disk[f]) =>
            /\ dlast.ran => /\ RelativePath(f) \notin ReportedPaths(dlast)
                            /\ RelativePath(f) \notin MapKeys(dlast.currentHashes)
            /\ dsnap.ran => RelativePath(f) \notin MapKeys(dsnap.hashes)

\* A file with a null byte whose path the baseline holds with a text hash.
C18_Witness ==
    /\ dlast.ran
    /\ dsnap.ran
    /\ HasNul(disk[FileDot])
    /\ <<RelativePath(FileDot), HashContent(<<120>>)>> \in dlast.baseline
    /\ disk[FileUpper] = <<121>>
    /\ Len(dlast.changedFiles) = 1

\* C19: a diff against the snapshot that the previous diff of the same
\* directory returned lists nothing and returns that snapshot again; and a
\* diff of a directory holding the single text file "a.t" = "x" against the
\* empty baseline lists exactly that file and returns {a.t: hash(x)}.
C19_DiffReachesFixpoint ==
    /\ (dprev.ran /\ dlast.ran /\ dlast.baseline = dprev.currentHashes) =>
          /\ dlast.changedFiles = <<>>
          /\ dlast.currentHashes = dprev.currentHashes
    /\ (/\ dlast.ran
        /\ dlast.baseline = {}
        /\ disk = [f \in Files |-> IF f = FileDot THEN <<120>> ELSE Absent]) =>
          /\ dlast.changedFiles = <<FileWritten(RelativePath(FileDot), <<120>>)>>
          /\ dlast.currentHashes = {<<RelativePath(FileDot), HashContent(<<120>>)>>}

\* The first diff listed two files, the second one, against its snapshot,
\* none.
C19_Witness ==
    /\ dprev.ran
    /\ Len(dprev.changedFiles) = 2
    /\ dlast.ran
    /\ dlast.baseline = dprev.currentHashes
    /\ dlast.baseline # dprev.baseline
    /\ dlast.changedFiles = <<>>

\* The full path a listed path came from: "/" back to path.sep.
NativeOf(path) == [i \in 1..Len(path) |-> IF path[i] = Slash THEN sep ELSE path[i]]

\* Two calls in a row with the same baseline and no write in between.
Repeated == dprev.ran /\ dlast.ran /\ dlast.baseline = dprev.baseline

\* C20 (as claimed): collectChangedFiles leaves the directory and the
\* baseline as they were, a repeated call returns the same change-set, and
\* the listed paths are in lexicographic order.
C20_PureAndLexicographic ==
    /\ dlast.ran => dlast.intact
    /\ Repeated => dlast.changedFiles = dprev.changedFiles
    /\ dlast.ran =>
          \A i, j \in 1..Len(dlast.changedFiles) :
              i < j => LexLess(dlast.changedFiles[i].path, dlast.changedFiles[j].path)

\* C20 (amended): collectChangedFiles leaves the directory and the baseline
\* as they were, a repeated call returns the same change-set and snapshot,
\* and the files are listed in the lexicographic order of their full paths as
\* the platform writes them, which is the lexicographic order of the listed
\* paths when path.sep is "/".
C20_PureAndSortedByFullPath ==
    /\ dlast.ran => dlast.intact
    /\ Repeated => /\ dlast.changedFiles = dprev.changedFiles
                   /\ dlast.currentHashes = dprev.currentHashes
    /\ dlast.ran =>
          \A i, j \in 1..Len(dlast.changedFiles) :
              i < j =>
                /\ LexLess(NativeOf(dlast.changedFiles[i].path),
                           NativeOf(dlast.changedFiles[j].path))
                /\ sep = Slash =>
                      LexLess(dlast.changedFiles[i].path, dlast.changedFiles[j].path)

\* With "\" as path.sep, two calls in a row listed "aB" before "a/b".
C20_Witness ==
    /\ sep = Backslash
    /\ Repeated
    /\ Len(dlast.changedFiles) = 3
    /\ dlast.changedFiles[2].path = RelativePath(FileUpper)
    /\ dlast.changedFiles[3].path = RelativePath(FileNested)
    /\ dlast.changedFiles = dprev.changedFiles

----------------------------------------------------------------------------
(* Stream session claims: control calls, finalization, sampling            *)

C25_NoScratchFileUploaded ==
    \A i \in 1..Len(netLog) :
        netLog[i].kind = "upload" => netLog[i].file.path.loc # "scratch"

UploadsWithFeedback ==
    {i \in 1..Len(netLog) : netLog[i].kind = "upload" /\ netLog[i].feedback # <<>>}

\* C26: when finalization has k >= 1 files, it sends one upload request per
\* file, in the order of the files, and the feedback list goes with the first
\* request only; over the whole session at most one upload request carries
\* the feedback list.
C26_OneUploadPerFileFeedbackOnFirst ==
    /\ \A i \in 1..Len(netLog) :
          netLog[i].kind = "upload" =>
              /\ i <= Len(filesToCache)
              /\ netLog[i].file = filesToCache[i]
              /\ netLog[i].feedback # <<>> => i = 1
    /\ Cardinality(UploadsWithFeedback) <= 1
    /\ (Len(filesToCache) >= 1 /\ finalizer = 0 /\ ~stats.uploadFailed) =>
          /\ Len(netLog) = Len(filesToCache)
          /\ \A i \in 1..Len(netLog) : netLog[i].kind = "upload"

C26_Witness ==
    /\ Len(filesToCache) = 2
    /\ finalizer = 0
    /\ Len(netLog) = 2
    /\ netLog[1].feedback # <<>>
    /\ netLog[2].feedback = <<>>

DistinctFilenames(files) ==
    \A i \in 1..Len(files), j \in 1..Len(files) :
        i # j => files[i].filename # files[j].filename

\* Every filename is a single name, without directory segments.
PlainFilenames(files) ==
    \A i \in 1..Len(files) : files[i].filename \in {"a1.ts", "a2.ts"}

\* The retrieval of _initialize returned and every write succeeded.
RetrievedAndWritten ==
    /\ stats.retrievals > 0
    /\ initPc \in {"importing", "done", "failed"}
    /\ ~stats.retrievalFailed
    /\ ~stats.writeFailed

\* C28 (state part): a sampled-out session sends no vote request, no feedback
\* list and no execution logs, and still uploads every file it produced; a
\* sampled-in session sends the list of all retrieved artifacts with its
\* first upload; the default rate samples every session in.
SamplingControlsFeedbackOnly ==
    /\ ~parseRun =>
          /\ \A i \in 1..Len(netLog) :
                /\ netLog[i].kind = "upload"
                /\ netLog[i].feedback = <<>>
                /\ netLog[i].logs = 0
          /\ (/\ cacheEnabled /\ hasPromptText /\ stats.succeededAtFinalize
              /\ stats.finalizeRuns = 1 /\ finalizer = 0 /\ ~stats.uploadFailed
              /\ stats.retrievals > 0) =>
                /\ Len(netLog) = stats.produced
                /\ \A i \in 1..Len(netLog) : netLog[i].file = filesToCache[i]
    /\ (parseRun /\ Len(netLog) >= 1 /\ netLog[1].kind = "upload") =>
          netLog[1].feedback = cachedFiles
    /\ \A random \in RandomDraws, envValue \in {NotSet, InvalidRate} :
          ShouldParseRunForAiVoting(
              ResolveRunParseSampleRate(NotSet, envValue), random)

\* C28: the sampling decision is taken once per session and controls only
\* the feedback (SamplingControlsFeedbackOnly).
C28_SamplingDecidedOnceControlsFeedback ==
    /\ []SamplingControlsFeedbackOnly
    /\ [][parseRun' = parseRun]_vars

C28_Witness ==
    /\ ~parseRun
    /\ cachedFiles # <<>>
    /\ stats.produced = 2
    /\ finalizer = 0
    /\ Len(netLog) = 2
    /\ netLog[1].feedback = <<>>

\* The part of C27 about the stream session: after a retrieval of
\* _initialize whose writes all succeeded, every artifact is in the scratch
\* directory under its filename with its source, and the prompt handed to
\* the wrapped stream names every filename; with no match it is the
\* session's own system prompt.  Filenames with directory segments are left
\* to C37.
InitializeMaterializesAll ==
    /\ (RetrievedAndWritten /\ DistinctFilenames(cachedFiles)
            /\ PlainFilenames(cachedFiles)) =>
          /\ \A i \in 1..Len(cachedFiles) :
                <<Path("scratch", cachedFiles[i].filename), cachedFiles[i].source>>
                    \in initWrites
          /\ Cardinality(initWrites) = Len(cachedFiles)
          /\ inner = "query" =>
                /\ Len(sdkPrompt) = Len(SystemPrompt) + Len(cachedFiles)
                /\ \A i \in 1..Len(cachedFiles) :
                      \E j \in 1..Len(sdkPrompt) : sdkPrompt[j] = cachedFiles[i].filename
    /\ (inner = "query" /\ cachedFiles = <<>>) => sdkPrompt = SystemPrompt

\* The part of C27 about the materialization session: after a prepareTurn
\* of a first turn that returned, every artifact is in tempdir under its
\* filename with its source, and the prompt fragment names every filename;
\* with no match it is empty.
PrepareTurnMaterializesAll ==
    (mlast.op = "prepare" /\ mlast.first /\ mlast.outcome = "context"
        /\ mlast.intact /\ DistinctFilenames(ptcFiles)) =>
        /\ \A i \in 1..Len(ptcFiles) :
              /\ ptcFiles[i].filename \in Files
              /\ disk[ptcFiles[i].filename] = ptcFiles[i].source
        /\ mlast.wrote = {ptcFiles[i].filename : i \in 1..Len(ptcFiles)}
        /\ Len(contextPrompt) = Len(ptcFiles)
        /\ \A i \in 1..Len(ptcFiles) : contextPrompt[i] = ptcFiles[i].filename
        /\ ptcFiles = <<>> => contextPrompt = <<>>

PrepareTurnMaterializedTwo ==
    /\ mlast.op = "prepare" /\ mlast.first /\ mlast.outcome = "context"
    /\ Len(ptcFiles) = 2
    /\ Cardinality(mlast.wrote) = 2

----------------------------------------------------------------------------
(* Materialization session claims                                          *)

\* C21: uploadChangedCode sends no request and returns null exactly when the
\* change-set against the current baseline is empty; an uploadChangedCode
\* that begins when the baseline was read from tempdir as it is now (by
\* prepareTurn, by an uploadChangedCode that returned null, or by one that
\* uploaded, with no write since) returns null and sends no request.
C21_NullIffNothingChanged ==
    /\ mlast.op = "upload" =>
          /\ (mlast.outcome = "null") <=> (mlast.changed = <<>>)
          /\ (mlast.requests = 0) <=> (mlast.changed = <<>>)
          /\ mlast.fresh => (mlast.outcome = "null" /\ mlast.requests = 0)
    /\ mpc = "uploading" => (mlocal.changedFiles # <<>> /\ ~mlocal.fresh)

C21_Witness ==
    /\ mlast.op = "upload"
    /\ mlast.fresh
    /\ mlast.outcome = "null"
    /\ baselineHashes # {}
    /\ ptcLogs = 0
    /\ prepared

\* An artifact filename of the list resolves outside tempdir.
HasUnsafeFilename(files) ==
    \E i \in 1..Len(files) :
        Resolve(files[i].filename, [up |-> 0, names |-> <<>>]).up # 0

\* C22: if any artifact of a retrieval has a filename that resolves outside
\* the scratch directory, prepareTurn fails and no artifact of that retrieval
\* has been written, whatever the position of the offending artifact.
C22_NothingWrittenOnUnsafeFilename ==
    (mlast.op = "prepare" /\ mlast.first /\ HasUnsafeFilename(ptcFiles)) =>
        (mlast.outcome = "error" /\ mlast.wrote = {})

C29_FailedUploadLeavesState ==
    /\ (mlast.op = "upload" /\ mlast.outcome = "error") =>
          /\ mlast.requests = 1
          /\ mlast.kept.baseline
          /\ mlast.kept.logs
          /\ mlast.intact => CollectChangedFiles(baselineHashes).changedFiles = mlast.changed
    /\ mlast.again # "differs"
    /\ mlocal.again # "differs"

C29_Witness ==
    /\ mlast.op = "upload"
    /\ mlast.outcome = "error"
    /\ mlast.again = "same"
    /\ ptcLogs > 0

----------------------------------------------------------------------------
(* Transport claims: bounded attempts and termination                      *)

\* An attempt's outcome after which the loop may go on: a connection failure
\* or a response with status 429, 500, 502, 503 or 504.
IsRetryableOutcome(e) ==
    \/ e.kind = "network"
    \/ e.kind = "status" /\ e.status \in {429, 500, 502, 503, 504}

\* The safety part of C30: a call never makes more than MAX_RETRIES + 1
\* attempts, every attempt but the last had a retryable outcome (none follows
\* a 2xx response or a fatal outcome), and a call that is over made at least
\* one attempt and has a value or an error.
AttemptsBoundedAndOrdered ==
    /\ Len(tlog) <= MAX_RETRIES + 1
    /\ \A i \in 1..(Len(tlog) - 1) : IsRetryableOutcome(tlog[i])
    /\ tpc = "fetch" => Len(tlog) = attempt
    /\ tpc = "done" =>
          /\ Len(tlog) >= 1
          /\ tresult.type \in {"value", "error"}

\* C30: for every sequence of outcomes one Transport call makes at least 1
\* and at most 4 attempts, never makes an attempt after a 2xx response or a
\* fatal outcome, and always terminates with a value or an error.
C30_BoundedAttemptsAndTermination ==
    /\ []AttemptsBoundedAndOrdered
    /\ <>(tpc = "done")

C30_Witness ==
    /\ tpc = "done"
    /\ Len(tlog) = MAX_RETRIES + 1
    /\ tlog[1].kind = "network"
    /\ tlog[2].kind = "status"
    /\ tresult = Value

----------------------------------------------------------------------------
(* Transport claims: waits and error taxonomy                              *)

\* The wait the call is expected to insert after failed attempt i (1-based).
ExpectedWait(i) ==
    IF tlog[i].kind = "status" /\ tlog[i].status = 429 /\ tlog[i].hdr # <<>>
    THEN tlog[i].hdr[1] * 1000
    ELSE 500 * 2^(i - 1)

\* C31: the wait before the retry that follows failed attempt n (n = 0, 1, 2)
\* is 500 * 2^n ms after a 5xx response or a connection failure, and after a
\* 429 it is the Retry-After seconds times 1000 when the header is present,
\* else 500 * 2^n ms.  One wait is inserted per retried attempt and none
\* after the final attempt of the call.
C31_WaitBeforeEachRetry ==
    /\ Len(tdelays) <= MAX_RETRIES
    /\ Len(tdelays) = IF tpc = "sleep" THEN Len(tlog)
                      ELSE IF tpc = "done" THEN Len(tlog) - 1
                      ELSE Len(tlog)
    /\ \A i \in 1..Len(tdelays) :
          /\ \/ tlog[i].kind = "network"
             \/ tlog[i].kind = "status" /\ tlog[i].status \in {429, 500, 502, 503, 504}
          /\ tdelays[i] = ExpectedWait(i)

\* A 503, a 429 with Retry-After "2", a connection failure, then a 429 with
\* Retry-After "1" on the final attempt: three waits, none after the last.
C31_Witness ==
    /\ tpc = "done"
    /\ Len(tlog) = 4
    /\ tlog[1].kind = "status" /\ tlog[1].status = 503
    /\ tlog[2].kind = "status" /\ tlog[2].status = 429 /\ tlog[2].hdr = <<2>>
    /\ tlog[3].kind = "network"
    /\ tlog[4].kind = "status" /\ tlog[4].status = 429 /\ tlog[4].hdr = <<1>>
    /\ tdelays = <<500, 2000, 2000>>

\* Names of the errors of src/src/errors.ts that stand for the taxonomy values
\* AuthenticationFailure, RateLimited, ServiceUnavailable, Timeout and ApiError.
TaxonomyNames ==
    {"AuthenticationError", "RateLimitError", "CacheUnavailableError",
     "TimeoutError", "APIError"}

\* C32 (as claimed): every failure of a transport call is surfaced as one of
\* the taxonomy errors, whatever the sequence of attempt outcomes was.
C32_EveryFailureInTaxonomy ==
    (tpc = "done" /\ tresult.type = "error") => tresult.name \in TaxonomyNames

----------------------------------------------------------------------------
(* Stream session claims: tracking                                         *)

\* C33: the success flag is false until a message is inspected, and it is
\* true exactly when a terminal message of kind success has been inspected:
\* no other message sets it, and no later message, a later non-success
\* terminal message included, resets it.
C33_SuccessFlagIffSuccessInspected ==
    /\ taskSucceeded = stats.successEmitted
    /\ messageCount = 0 => ~taskSucceeded

\* A non-success terminal message was inspected after a success message, and
\* the flag is still set.
C33_Witness ==
    /\ taskSucceeded
    /\ messageCount >= 2
    /\ innerLast.t = "yield"
    /\ innerLast.msg = MsgFailure
    /\ stats.successEmitted

\* C34: only code blocks whose trimmed length exceeds 50 characters are kept
\* as candidates, and finalization adds at most one synthetic artifact to the
\* list it collects: none when no candidate was captured, otherwise exactly
\* one, whose content is a captured candidate that no other candidate exceeds
\* in length.
C34_OneSyntheticArtifactOfMaximalLength ==
    /\ \A i \in 1..Len(generatedCodeBlocks) : generatedCodeBlocks[i] > 50
    /\ Len(generatedCodeBlocks) <= messageCount
    /\ stats.finalizeRuns >= 1 =>
          /\ Len(stats.synthetic) <= 1
          /\ (stats.candidates = <<>>) <=> (stats.synthetic = <<>>)
          /\ \A i \in 1..Len(stats.synthetic) :
                /\ \E j \in 1..Len(stats.candidates) :
                      stats.candidates[j] = stats.synthetic[i].codeLen
                /\ \A j \in 1..Len(stats.candidates) :
                      stats.candidates[j] <= stats.synthetic[i].codeLen

\* Two candidates were captured, the longer one first, before finalization
\* collected the synthetic artifact.
C34_Witness ==
    /\ stats.finalizeRuns = 1
    /\ stats.candidates = <<70, 60>>
    /\ Len(stats.synthetic) = 1
    /\ stats.synthetic[1].codeLen = 70

\* A block of exactly 50 characters after trimming was inspected and not kept.
ShortBlockDropped ==
    /\ innerLast.t = "yield"
    /\ innerLast.msg = MsgWrite
    /\ messageCount = 1
    /\ generatedCodeBlocks = <<>>

----------------------------------------------------------------------------
(* Client upload claims                                                    *)

\* The call was given several files and a non-empty feedback list.
SeveralFilesWithFeedback ==
    /\ upc # "idle"
    /\ uresult # "usageError"
    /\ Len(NormalizedFiles(uopts)) > 1
    /\ uopts.cachedCodeBlocks \notin {NoBlocks, <<>>}

\* One request per file, in input order, none after a failed one.
UploadOnePerFileInOrder ==
    (upc # "idle" /\ uresult # "usageError") =>
        /\ Len(usent) <= Len(NormalizedFiles(uopts))
        /\ \A i \in 1..Len(usent) : usent[i].file_written = NormalizedFiles(uopts)[i]
        /\ Len(usent) = IF upc = "requesting" \/ uresult = "error" THEN uidx + 1
                        ELSE uidx
        /\ uresult \in {"aggregate", "response"} =>
              Len(usent) = Len(NormalizedFiles(uopts))

\* C35 (as claimed): an upload() of k > 1 files with a feedback list sends one
\* request per file in input order, stops at the first request that fails,
\* and attaches the feedback list to the first request only.
C35_FeedbackOnFirstRequestOnly ==
    SeveralFilesWithFeedback =>
        /\ UploadOnePerFileInOrder
        /\ \A i \in 1..Len(usent) :
              usent[i].cached_code_blocks =
                  IF i = 1 THEN uopts.cachedCodeBlocks ELSE NoBlocks

----------------------------------------------------------------------------
(* Stream session claims: closing and initialization                       *)

\* C36 (as claimed): once a return() call is over, whether it was made
\* before initialization started, while it was in flight or during
\* streaming, no next() made afterwards invokes initialization (which sends
\* the retrieval request and opens the wrapped stream) or returns a message.
C36_ClosedIsTerminal ==
    ~stats.lateInit /\ ~stats.lateYield

\* C37 (as claimed): every file _initialize writes while materializing the
\* retrieved artifacts lies inside the session's scratch directory, whatever
\* filenames the remote store returned.
C37_InitializeWritesInsideScratch ==
    \A e \in initWrites : e[1].loc = "scratch"

\* C38 (as claimed): every filename the prompt handed to the wrapped stream
\* references was written by _initialize; when a write failed, the artifacts
\* that were not written are not referenced.
C38_PromptReferencesOnlyWrittenFiles ==
    inner = "query" =>
        \A j \in 1..Len(sdkPrompt) :
            \E e \in initWrites : e[1] = JoinCacheDir(sdkPrompt[j])

----------------------------------------------------------------------------
(* Materialization session claims: produced changes                        *)

\* C39 (as claimed): an uploadChangedCode that uploads includes every file
\* the agent added or modified after a baseline was recorded and that was not
\* uploaded since, whatever prepareTurn calls were made after the write,
\* unless the file was removed or no longer holds the written content.
C39_NoProducedChangeLost ==
    mpc = "uploading" =>
        \A e \in mlocal.owed :
            \E i \in 1..Len(mlocal.changedFiles) :
                mlocal.changedFiles[i].path = RelativePath(e[1])

============================================================================
